---- MODULE Spec2Model ----
(***************************************************************************)
(* Model of scripts/validate_all.py: the manifest validation and auto-fix  *)
(* pipeline (main, its phases, the Fix registry and apply_fixes).          *)
(*                                                                         *)
(* Text is modelled as a sequence of symbols.  A symbol is either one of   *)
(* the characters the code inspects one by one (".", "/", "m", "d") or a   *)
(* word (a run of other characters, e.g. "commands", "foo") that the code  *)
(* never looks inside.  Paths are relative to the plugin root, which is    *)
(* the empty sequence.                                                     *)
(***************************************************************************)
EXTENDS Integers, Sequences, FiniteSets, TLC

(***************************************************************************)
(* str methods                                                             *)
(***************************************************************************)
MD == <<".", "m", "d">>
DOTSLASH == <<".", "/">>
JSONEXT == <<".", "json">>

startswith(s, p) == Len(s) >= Len(p) /\ SubSeq(s, 1, Len(p)) = p

endswith(s, p) == Len(s) >= Len(p) /\ SubSeq(s, Len(s) - Len(p) + 1, Len(s)) = p

RECURSIVE lstrip(_, _)
lstrip(s, chars) ==
  IF s # <<>> /\ Head(s) \in chars THEN lstrip(Tail(s), chars) ELSE s

RECURSIVE rstrip(_, _)
rstrip(s, chars) ==
  IF s # <<>> /\ s[Len(s)] \in chars THEN rstrip(SubSeq(s, 1, Len(s) - 1), chars) ELSE s

\* str.replace(old, new): leftmost, non-overlapping, all occurrences
RECURSIVE replace(_, _, _)
replace(s, old, new) ==
  IF s = <<>> THEN <<>>
  ELSE IF startswith(s, old) THEN new \o replace(SubSeq(s, Len(old) + 1, Len(s)), old, new)
  ELSE <<Head(s)>> \o replace(Tail(s), old, new)

\* position of the last occurrence of symbol c in s, 0 when absent
LastIdx(s, c) ==
  IF \E i \in 1..Len(s) : s[i] = c
  THEN CHOOSE i \in 1..Len(s) : s[i] = c /\ \A j \in (i+1)..Len(s) : s[j] # c
  ELSE 0

\* position of the first occurrence of symbol c at index >= from, 0 when absent
FirstIdxFrom(s, c, from) ==
  IF \E i \in from..Len(s) : s[i] = c
  THEN CHOOSE i \in from..Len(s) : s[i] = c /\ \A j \in from..(i-1) : s[j] # c
  ELSE 0

SeqToSet(s) == { s[i] : i \in 1..Len(s) }

RECURSIVE Concat(_)
Concat(ss) == IF ss = <<>> THEN <<>> ELSE Head(ss) \o Concat(Tail(ss))

(***************************************************************************)
(* pathlib                                                                 *)
(***************************************************************************)
\* Path.__truediv__ (a / b); a trailing separator is dropped
PJoin(a, b) ==
  LET b2 == rstrip(b, {"/"})
  IN IF a = <<>> THEN b2 ELSE IF b2 = <<>> THEN a ELSE a \o <<"/">> \o b2

PName(p) == SubSeq(p, LastIdx(p, "/") + 1, Len(p))

PParent(p) == SubSeq(p, 1, LastIdx(p, "/") - 1)

\* Path.suffix: from the last "." of the name, unless the name starts with it
PSuffix(p) ==
  LET n == PName(p)
      i == LastIdx(n, ".")
  IN IF i > 1 /\ i < Len(n) THEN SubSeq(n, i, Len(n)) ELSE <<>>

PStem(p) ==
  LET n == PName(p)
  IN SubSeq(n, 1, Len(n) - Len(PSuffix(p)))

\* Path.with_suffix("")
PWithoutSuffix(p) == SubSeq(p, 1, Len(p) - Len(PSuffix(p)))

\* every proper ancestor directory of p, and p itself
Ancestors(p) == { SubSeq(p, 1, i - 1) : i \in { j \in 1..Len(p) : p[j] = "/" } } \cup {p}

(***************************************************************************)
(* The file system.  files maps a path to its content, dirs is the set of  *)
(* directories, xbits the set of files with an executable bit; the plugin  *)
(* root <<>> always exists.  A content is text [k, v] (v: its tokens),     *)
(* json [k, v, fmt] (v: the document) or badjson [k] (text that json.loads *)
(* rejects).                                                               *)
(* File-system calls return [ok, fs]; ok = FALSE models a raised OSError.  *)
(***************************************************************************)
CP == <<".", "claude-plugin">>
MP_PATH == CP \o <<"/", "marketplace", ".", "json">>
ROOT_PLUGIN_JSON == <<"plugin", ".", "json">>
CP_PLUGIN_JSON == CP \o <<"/", "plugin", ".", "json">>

\* fmt records how a JSON file is laid out: "orig" as the author wrote it,
\* "indent2" as json.dumps(data, indent=2) + "\n" writes it.
Text(toks) == [k |-> "text", v |-> toks]
Json(doc) == [k |-> "json", v |-> doc, fmt |-> "orig"]
BadJson == [k |-> "badjson"]

is_file(fs, p) == p \in DOMAIN fs.files
is_dir(fs, p) == p = <<>> \/ p \in fs.dirs
exists(fs, p) == is_file(fs, p) \/ is_dir(fs, p)

\* Path.iterdir(): the entries directly inside directory d
iterdir(fs, d) == { p \in (DOMAIN fs.files) \cup fs.dirs : p # <<>> /\ PParent(p) = d }

\* Path.glob("*.md")
glob_md(fs, d) == { p \in iterdir(fs, d) : endswith(PName(p), MD) }

Raise(fs) == [ok |-> FALSE, fs |-> fs]
Ok(fs) == [ok |-> TRUE, fs |-> fs]

\* Path.mkdir(parents=True, exist_ok=True)
mkdir_p(fs, p) ==
  IF \E a \in Ancestors(p) : is_file(fs, a) THEN Raise(fs)
  ELSE Ok([fs EXCEPT !.dirs = @ \cup (Ancestors(p) \ {<<>>})])

\* Path.write_text(content)
write_text(fs, p, c) ==
  IF is_dir(fs, p) \/ ~is_dir(fs, PParent(p)) THEN Raise(fs)
  ELSE Ok([fs EXCEPT !.files =
             [q \in (DOMAIN @) \cup {p} |-> IF q = p THEN c ELSE @[q]]])

\* Path.unlink()
unlink(fs, p) ==
  IF ~is_file(fs, p) THEN Raise(fs)
  ELSE Ok([fs EXCEPT !.files = [q \in (DOMAIN @) \ {p} |-> @[q]],
                     !.xbits = @ \ {p}])

\* Path.rmdir(): only an empty directory
rmdir(fs, d) ==
  IF ~is_dir(fs, d) \/ iterdir(fs, d) # {} THEN Raise(fs)
  ELSE Ok([fs EXCEPT !.dirs = @ \ {d}])

\* shutil.move(src, dst) with dst not existing: rename src and all below it
Rebase(p, src, dst) == dst \o SubSeq(p, Len(src) + 1, Len(p))
Under(p, src) == p = src \/ startswith(p, src \o <<"/">>)
move(fs, src, dst) ==
  IF ~exists(fs, src) \/ exists(fs, dst) \/ ~is_dir(fs, PParent(dst)) THEN Raise(fs)
  ELSE LET moved == { p \in DOMAIN fs.files : Under(p, src) }
           kept == (DOMAIN fs.files) \ moved
           newf == kept \cup { Rebase(p, src, dst) : p \in moved }
       IN Ok([fs EXCEPT
                !.files = [q \in newf |->
                             IF q \in kept THEN fs.files[q]
                             ELSE fs.files[CHOOSE p \in moved : Rebase(p, src, dst) = q]],
                !.dirs = { d \in fs.dirs : ~Under(d, src) }
                           \cup { Rebase(d, src, dst) : d \in { e \in fs.dirs : Under(e, src) } },
                !.xbits = { x \in fs.xbits : ~Under(x, src) }
                            \cup { Rebase(x, src, dst) : x \in { e \in fs.xbits : Under(e, src) } }])

\* shutil.rmtree(d)
rmtree(fs, d) ==
  [fs EXCEPT !.files = [q \in { p \in DOMAIN fs.files : ~Under(p, d) } |-> fs.files[q]],
             !.dirs = { e \in fs.dirs : ~Under(e, d) },
             !.xbits = { x \in fs.xbits : ~Under(x, d) }]

(***************************************************************************)
(* JSON documents: a string [t, v] (v: its symbols), a list [t, v, len],   *)
(* an object [t, v, keys, size] (v: function from its keys) and null [t].  *)
(* Values of different types have different field sets, so two values are  *)
(* equal only if they have the same type and the same payload.             *)
(***************************************************************************)
JS(s) == [t |-> "str", v |-> s]
JL(l) == [t |-> "list", v |-> l, len |-> Len(l)]
JO(o) == [t |-> "obj", v |-> o, keys |-> DOMAIN o, size |-> Cardinality(DOMAIN o)]
JNull == [t |-> "null"]
EmptyObj == [x \in {} |-> JNull]

isstr(j) == j.t = "str"
islist(j) == j.t = "list"
isdict(j) == j.t = "obj"

has(o, key) == key \in DOMAIN o.v
\* dict.get(key, default)
get(o, key, default) == IF has(o, key) THEN o.v[key] ELSE default
\* d[key] = val
setkey(o, key, val) ==
  JO([x \in (DOMAIN o.v) \cup {key} |-> IF x = key THEN val ELSE o.v[x]])
\* d.pop(key, None)
popkey(o, key) == JO([x \in (DOMAIN o.v) \ {key} |-> o.v[x]])

(***************************************************************************)
(* Markdown text: a sequence of tokens.  Dash is "---", NL a line feed,    *)
(* CRLF a carriage return + line feed, Txt a line of body text and         *)
(* KV(key, val) a line "key: val" whose value is a sequence of symbols.    *)
(***************************************************************************)
Dash == [c |-> "---"]
NL == [c |-> "NL"]
CRLF == [c |-> "CRLF"]
Txt == [c |-> "txt"]
KV(key, val) == [c |-> "kv", key |-> key, val |-> val]

TODO == <<"TODO", ":", "Add description">>
LISTVAL == <<"[list]">>

\* Path.read_text(): universal newlines turn "\r\n" into "\n"
decode_newlines(toks) == [i \in 1..Len(toks) |-> IF toks[i] = CRLF THEN NL ELSE toks[i]]

read_text(fs, p) ==
  IF is_file(fs, p) /\ fs.files[p].k = "text"
  THEN [ok |-> TRUE, v |-> decode_newlines(fs.files[p].v)]
  ELSE [ok |-> FALSE, v |-> <<>>]

\* json.loads(path.read_text()) of a file whose top level is an object
load_json(fs, p) ==
  IF is_file(fs, p) /\ fs.files[p].k = "json" /\ isdict(fs.files[p].v)
  THEN [ok |-> TRUE, v |-> fs.files[p].v]
  ELSE [ok |-> FALSE, v |-> JO(EmptyObj)]

\* path.write_text(json.dumps(data, indent=2) + "\n")
dump_json(fs, p, data) == write_text(fs, p, [k |-> "json", v |-> data, fmt |-> "indent2"])

\* r, then F on r's file system unless r raised
Bind(r, F(_)) == IF r.ok THEN F(r.fs) ELSE r

\* data.get("plugins", [data])
plugins_of(data) == get(data, "plugins", JL(<<data>>))

\* the document after the plugin objects reached through plugins_of were
\* mutated in place into newlist
with_plugins(data, newlist) ==
  IF has(data, "plugins") THEN setkey(data, "plugins", JL(newlist)) ELSE newlist[1]

(***************************************************************************)
(* FIX FUNCTIONS.  Each returns [ok, fs]: the file system it leaves and    *)
(* whether it returned (TRUE) or raised (FALSE).                           *)
(***************************************************************************)
\* the per-plugin step of fix_add_to_marketplace
add_item(plugin, item_type, item_path) ==
  LET path == IF startswith(item_path, DOTSLASH) THEN item_path ELSE DOTSLASH \o item_path
      old == get(plugin, item_type, JL(<<>>)).v
  IN setkey(plugin, item_type,
            JL(IF JS(path) \in SeqToSet(old) THEN old ELSE Append(old, JS(path))))

fix_add_to_marketplace(fs, marketplace_path, item_type, item_path) ==
  LET ld == load_json(fs, marketplace_path)
      pl == plugins_of(ld.v)
  IN IF ~ld.ok \/ ~islist(pl) THEN Raise(fs)
     ELSE IF \E i \in 1..Len(pl.v) :
               ~isdict(pl.v[i]) \/ ~islist(get(pl.v[i], item_type, JL(<<>>)))
     THEN Raise(fs)
     ELSE dump_json(fs, marketplace_path,
            with_plugins(ld.v, [i \in 1..Len(pl.v) |-> add_item(pl.v[i], item_type, item_path)]))

\* the per-plugin step of fix_path_format: the first matching item is replaced
path_matches(item, old_path) ==
  rstrip(item.v, {"/"}) = rstrip(old_path, {"/"}) \/ item.v = old_path

replace_first(plugin, item_type, old_path, new_path) ==
  LET items == get(plugin, item_type, JL(<<>>)).v
      hits == { i \in 1..Len(items) : path_matches(items[i], old_path) }
  IN IF hits = {} \/ ~has(plugin, item_type) THEN plugin
     ELSE LET h == CHOOSE i \in hits : \A j \in hits : i <= j
          IN setkey(plugin, item_type,
                    JL([i \in 1..Len(items) |-> IF i = h THEN JS(new_path) ELSE items[i]]))

\* item.rstrip raises on the first non-string item met before a match
path_format_raises(plugin, item_type, old_path) ==
  LET items == get(plugin, item_type, JL(<<>>))
  IN ~islist(items)
     \/ \E i \in 1..Len(items.v) :
          /\ ~isstr(items.v[i])
          /\ \A j \in 1..(i-1) : isstr(items.v[j]) /\ ~path_matches(items.v[j], old_path)

fix_path_format(fs, marketplace_path, item_type, old_path, new_path) ==
  LET ld == load_json(fs, marketplace_path)
      pl == plugins_of(ld.v)
  IN IF ~ld.ok \/ ~islist(pl) THEN Raise(fs)
     ELSE IF \E i \in 1..Len(pl.v) :
               ~isdict(pl.v[i]) \/ path_format_raises(pl.v[i], item_type, old_path)
     THEN Raise(fs)
     ELSE dump_json(fs, marketplace_path,
            with_plugins(ld.v,
              [i \in 1..Len(pl.v) |-> replace_first(pl.v[i], item_type, old_path, new_path)]))

fix_source_path(fs, marketplace_path, plugin_idx, new_source) ==
  LET ld == load_json(fs, marketplace_path)
      pl == plugins_of(ld.v)
  IN IF ~ld.ok \/ ~islist(pl) THEN Raise(fs)
     ELSE IF plugin_idx <= Len(pl.v) /\ ~isdict(pl.v[plugin_idx]) THEN Raise(fs)
     ELSE dump_json(fs, marketplace_path,
            with_plugins(ld.v,
              [i \in 1..Len(pl.v) |->
                 IF i = plugin_idx THEN setkey(pl.v[i], "source", JS(new_source))
                 ELSE pl.v[i]]))

GITHUB == <<"github">>
URL == <<"url">>

\* the per-plugin step of fix_github_source_format
github_source(plugin) ==
  LET source == get(plugin, "source", JS(<<>>))
      repo == get(plugin, "repo", JNull)
      popped == popkey(plugin, "repo")
      wrong == isstr(source) /\ source.v \in {GITHUB, URL}
      truthy == (isstr(repo) /\ repo.v # <<>>) \/ (~isstr(repo) /\ repo # JNull)
  IN IF wrong /\ truthy
     THEN setkey(popped, "source", JO([source |-> source, repo |-> repo]))
     ELSE IF wrong
     THEN setkey(popped, "source", JO([source |-> source, repo |-> JS(<<"OWNER", "/", "REPO">>)]))
     ELSE popped

fix_github_source_format(fs, marketplace_path, plugin_idx) ==
  LET ld == load_json(fs, marketplace_path)
      pl == plugins_of(ld.v)
  IN IF ~ld.ok \/ ~islist(pl) THEN Raise(fs)
     ELSE IF plugin_idx <= Len(pl.v) /\ ~isdict(pl.v[plugin_idx]) THEN Raise(fs)
     ELSE dump_json(fs, marketplace_path,
            with_plugins(ld.v,
              [i \in 1..Len(pl.v) |->
                 IF i = plugin_idx THEN github_source(pl.v[i]) ELSE pl.v[i]]))

fix_repository_to_string(fs, marketplace_path, plugin_idx) ==
  LET ld == load_json(fs, marketplace_path)
      pl == plugins_of(ld.v)
  IN IF ~ld.ok \/ ~islist(pl) THEN Raise(fs)
     ELSE IF plugin_idx <= Len(pl.v) /\ ~isdict(pl.v[plugin_idx]) THEN Raise(fs)
     ELSE dump_json(fs, marketplace_path,
            with_plugins(ld.v,
              [i \in 1..Len(pl.v) |->
                 IF i = plugin_idx /\ isdict(get(pl.v[i], "repository", JO(EmptyObj)))
                 THEN setkey(pl.v[i], "repository",
                             get(get(pl.v[i], "repository", JO(EmptyObj)), "url", JS(<<>>)))
                 ELSE pl.v[i]]))

\* the set S as a sequence, in a fixed order
RECURSIVE SetToSeq(_)
SetToSeq(S) ==
  IF S = {} THEN <<>>
  ELSE LET x == CHOOSE y \in S : TRUE IN <<x>> \o SetToSeq(S \ {x})

TodoFor(name) == <<"TODO", ":", "Add description for">> \o name
TOOLS5 == <<"[Read, Write, Bash, Grep, Glob]">>
TOOLS3 == <<"[Read, Grep, Glob]">>

command_stub(name) ==
  <<Dash, NL, KV("description", TodoFor(name)), NL,
    KV("argument-hint", <<"\"[optional args]\"">>), NL,
    KV("allowed-tools", TOOLS5), NL, Dash, NL, NL, Txt, NL, NL, Txt, NL>>

agent_stub(name) ==
  <<Dash, NL, KV("name", name), NL, KV("description", TodoFor(name)), NL,
    KV("tools", TOOLS5), NL, KV("model", <<"sonnet">>), NL, Dash, NL, NL, Txt, NL, NL, Txt, NL>>

skill_stub(name) ==
  <<Dash, NL, KV("name", name), NL, KV("description", TodoFor(name)), NL,
    KV("allowed-tools", TOOLS3), NL, Dash, NL, NL, Txt, NL, NL, Txt, NL, NL,
    Txt, NL, NL, Txt, NL, NL, Txt, NL, NL, Txt, NL>>

fix_create_command_stub(fs, cmd_path, name) ==
  Bind(mkdir_p(fs, PParent(cmd_path)),
       LAMBDA f : write_text(f, cmd_path, Text(command_stub(name))))

fix_create_agent_stub(fs, agent_path, name) ==
  Bind(mkdir_p(fs, PParent(agent_path)),
       LAMBDA f : write_text(f, agent_path, Text(agent_stub(name))))

fix_create_skill_stub(fs, skill_dir, name) ==
  Bind(mkdir_p(fs, skill_dir),
       LAMBDA f : write_text(f, PJoin(skill_dir, <<"SKILL", ".", "m", "d">>), Text(skill_stub(name))))

\* the frontmatter block fix_add_frontmatter builds from the dict
RECURSIVE fm_lines(_)
fm_lines(frontmatter) ==
  IF frontmatter = <<>> THEN <<>>
  ELSE <<Head(frontmatter), NL>> \o fm_lines(Tail(frontmatter))

fm_str(frontmatter) == <<Dash, NL>> \o fm_lines(frontmatter) \o <<Dash, NL>>

\* the content with an existing frontmatter block removed
strip_frontmatter(content) ==
  IF content # <<>> /\ Head(content) = Dash
  THEN LET end_idx == FirstIdxFrom(content, Dash, 2)
       IN IF end_idx = 0 THEN content
          ELSE lstrip(SubSeq(content, end_idx + 1, Len(content)), {NL})
  ELSE content

fix_add_frontmatter(fs, file_path, frontmatter) ==
  LET rd == read_text(fs, file_path)
  IN IF ~rd.ok THEN Raise(fs)
     ELSE write_text(fs, file_path, Text(fm_str(frontmatter) \o strip_frontmatter(rd.v)))

SHEBANG == [c |-> "#!"]

fix_add_shebang(fs, script_path) ==
  LET rd == read_text(fs, script_path)
  IN IF ~rd.ok THEN Raise(fs)
     ELSE IF rd.v # <<>> /\ Head(rd.v) = SHEBANG THEN Ok(fs)
     ELSE write_text(fs, script_path, Text(<<SHEBANG, NL>> \o rd.v))

fix_make_executable(fs, script_path) ==
  IF ~exists(fs, script_path) THEN Raise(fs)
  ELSE Ok([fs EXCEPT !.xbits = @ \cup {script_path}])

SKILL_MD == <<"SKILL", ".", "m", "d">>

\* one of the two conversions of fix_skill_structure: the .md file at src
\* becomes dir/SKILL.md
convert_skill_file(fs, src, dir) ==
  IF exists(fs, src) /\ is_file(fs, src) /\ PSuffix(src) = MD
  THEN LET rd == read_text(fs, src)
       IN IF ~rd.ok THEN Raise(fs)
          ELSE Bind(Bind(mkdir_p(fs, dir),
                         LAMBDA f : write_text(f, PJoin(dir, SKILL_MD), Text(rd.v))),
                    LAMBDA g : unlink(g, src))
  ELSE Ok(fs)

fix_skill_structure(fs, plugin_root, skill_path) ==
  LET normalized == lstrip(skill_path, {".", "/"})
      full_path == PJoin(plugin_root, normalized)
      wrong_path == PJoin(PJoin(plugin_root, CP), normalized)
  IN Bind(convert_skill_file(fs, full_path, PWithoutSuffix(full_path)),
          LAMBDA f : convert_skill_file(f, wrong_path,
                        PJoin(PJoin(plugin_root, <<"skills">>), PStem(wrong_path))))

\* the loop of fix_move_component_to_root over the entries of wrong_dir
RECURSIVE merge_items(_, _, _)
merge_items(r, items, correct_dir) ==
  IF items = <<>> \/ ~r.ok THEN r
  ELSE LET target == PJoin(correct_dir, PName(Head(items)))
       IN merge_items(IF exists(r.fs, target) THEN r ELSE move(r.fs, Head(items), target),
                      Tail(items), correct_dir)

\* "if not list(wrong_dir.iterdir()): wrong_dir.rmdir()"
rmdir_if_empty(fs, d) == IF iterdir(fs, d) = {} THEN rmdir(fs, d) ELSE Ok(fs)

fix_move_component_to_root(fs, plugin_root, component_type) ==
  LET wrong_dir == PJoin(PJoin(plugin_root, CP), component_type)
      correct_dir == PJoin(plugin_root, component_type)
  IN IF ~exists(fs, wrong_dir) THEN Ok(fs)
     ELSE IF exists(fs, correct_dir)
     THEN IF ~is_dir(fs, wrong_dir) THEN Raise(fs)
          ELSE Bind(merge_items(Ok(fs), SetToSeq(iterdir(fs, wrong_dir)), correct_dir),
                    LAMBDA f : rmdir_if_empty(f, wrong_dir))
     ELSE move(fs, wrong_dir, correct_dir)

\* the loop of fix_skills_complete over the entries of .claude-plugin/skills
RECURSIVE complete_items(_, _, _)
complete_items(r, items, correct_dir) ==
  IF items = <<>> \/ ~r.ok THEN r
  ELSE LET item == Head(items)
           target == PJoin(correct_dir, PName(item))
           step == IF is_file(r.fs, item) /\ PSuffix(item) = MD
                   THEN convert_skill_file(r.fs, item, PJoin(correct_dir, PStem(item)))
                   ELSE IF is_dir(r.fs, item) /\ ~exists(r.fs, target)
                   THEN move(r.fs, item, target)
                   ELSE r
       IN complete_items(step, Tail(items), correct_dir)

\* the per-plugin step of the manifest update of fix_skills_complete
strip_md(skill) == IF endswith(skill.v, MD) THEN JS(SubSeq(skill.v, 1, Len(skill.v) - 3)) ELSE skill

update_skills(plugin) ==
  LET skills == get(plugin, "skills", JL(<<>>))
  IN IF skills.v # <<>>
     THEN setkey(plugin, "skills", JL([i \in 1..Len(skills.v) |-> strip_md(skills.v[i])]))
     ELSE plugin

update_manifest_skills(fs, marketplace_path) ==
  IF ~exists(fs, marketplace_path) THEN Ok(fs)
  ELSE LET ld == load_json(fs, marketplace_path)
           pl == plugins_of(ld.v)
       IN IF ~ld.ok \/ ~islist(pl) THEN Raise(fs)
          ELSE IF \E i \in 1..Len(pl.v) :
                    \/ ~isdict(pl.v[i])
                    \/ ~islist(get(pl.v[i], "skills", JL(<<>>)))
                    \/ \E j \in 1..Len(get(pl.v[i], "skills", JL(<<>>)).v) :
                         ~isstr(get(pl.v[i], "skills", JL(<<>>)).v[j])
          THEN Raise(fs)
          ELSE dump_json(fs, marketplace_path,
                 with_plugins(ld.v, [i \in 1..Len(pl.v) |-> update_skills(pl.v[i])]))

fix_skills_complete(fs, plugin_root) ==
  LET wrong_dir == PJoin(PJoin(plugin_root, CP), <<"skills">>)
      correct_dir == PJoin(plugin_root, <<"skills">>)
  IN IF ~exists(fs, wrong_dir) THEN Ok(fs)
     ELSE Bind(Bind(Bind(mkdir_p(fs, correct_dir),
                 LAMBDA f : IF ~is_dir(f, wrong_dir) THEN Raise(f)
                            ELSE complete_items(Ok(f), SetToSeq(iterdir(f, wrong_dir)), correct_dir)),
                 LAMBDA g : IF exists(g, wrong_dir) THEN rmdir_if_empty(g, wrong_dir) ELSE Ok(g)),
                 LAMBDA h : update_manifest_skills(h, PJoin(PJoin(plugin_root, CP),
                                                     <<"marketplace", ".", "json">>)))

PLUGIN_JSON_ALLOWED ==
  {"name", "version", "description", "author", "repository",
   "homepage", "license", "keywords", "category", "tags"}

fix_plugin_json_schema(fs, plugin_json_path) ==
  LET ld == load_json(fs, plugin_json_path)
      kept == [x \in (DOMAIN ld.v.v) \cap PLUGIN_JSON_ALLOWED |-> ld.v.v[x]]
      fixed == [x \in DOMAIN kept |->
                  IF x = "repository" /\ isdict(kept[x]) THEN get(kept[x], "url", JS(<<>>))
                  ELSE kept[x]]
  IN IF ~ld.ok THEN Raise(fs) ELSE dump_json(fs, plugin_json_path, JO(fixed))

(***************************************************************************)
(* class Fix: a description, the fix function and its bound arguments.     *)
(***************************************************************************)
NoFix == [fn |-> "none"]

Fix(description, fn, args) == [fn |-> fn, description |-> description, args |-> args]

\* fix_func(*args)
call_fix(fs, fix) ==
  CASE fix.fn = "fix_add_to_marketplace" ->
         fix_add_to_marketplace(fs, fix.args.marketplace_path, fix.args.item_type, fix.args.item_path)
    [] fix.fn = "fix_path_format" ->
         fix_path_format(fs, fix.args.marketplace_path, fix.args.item_type,
                         fix.args.old_path, fix.args.new_path)
    [] fix.fn = "fix_source_path" ->
         fix_source_path(fs, fix.args.marketplace_path, fix.args.plugin_idx, fix.args.new_source)
    [] fix.fn = "fix_github_source_format" ->
         fix_github_source_format(fs, fix.args.marketplace_path, fix.args.plugin_idx)
    [] fix.fn = "fix_repository_to_string" ->
         fix_repository_to_string(fs, fix.args.marketplace_path, fix.args.plugin_idx)
    [] fix.fn = "fix_create_command_stub" ->
         fix_create_command_stub(fs, fix.args.path, fix.args.name)
    [] fix.fn = "fix_create_agent_stub" ->
         fix_create_agent_stub(fs, fix.args.path, fix.args.name)
    [] fix.fn = "fix_create_skill_stub" ->
         fix_create_skill_stub(fs, fix.args.path, fix.args.name)
    [] fix.fn = "fix_add_frontmatter" ->
         fix_add_frontmatter(fs, fix.args.path, fix.args.frontmatter)
    [] fix.fn = "fix_add_shebang" -> fix_add_shebang(fs, fix.args.path)
    [] fix.fn = "fix_make_executable" -> fix_make_executable(fs, fix.args.path)
    [] fix.fn = "fix_skill_structure" ->
         fix_skill_structure(fs, fix.args.plugin_root, fix.args.skill_path)
    [] fix.fn = "fix_move_component_to_root" ->
         fix_move_component_to_root(fs, fix.args.plugin_root, fix.args.component_type)
    [] fix.fn = "fix_skills_complete" -> fix_skills_complete(fs, fix.args.plugin_root)
    [] fix.fn = "fix_plugin_json_schema" -> fix_plugin_json_schema(fs, fix.args.path)

\* Fix.apply: True when the function returned, False when it raised
Fix_apply(fs, fix) == call_fix(fs, fix)

(***************************************************************************)
(* class ValidationResult.  A message is [code, kind, idx, subj]: the      *)
(* error code ("" when the message has none), what it says, the plugin     *)
(* index it names (0: none) and the path or name it quotes.  An error or   *)
(* warning also remembers the Fix it was added with (NoFix: none).         *)
(***************************************************************************)
ValidationResult == [errors |-> <<>>, warnings |-> <<>>, passed |-> <<>>, fixes |-> <<>>]

Msg(code, kind, idx, subj) == [code |-> code, kind |-> kind, idx |-> idx, subj |-> subj]

Issue(m, fix) == [code |-> m.code, kind |-> m.kind, idx |-> m.idx, subj |-> m.subj, fix |-> fix]

add_error(r, m, fix) ==
  [r EXCEPT !.errors = Append(@, Issue(m, fix)),
            !.fixes = IF fix # NoFix THEN Append(@, fix) ELSE @]

add_warning(r, m, fix) ==
  [r EXCEPT !.warnings = Append(@, Issue(m, fix)),
            !.fixes = IF fix # NoFix THEN Append(@, fix) ELSE @]

add_pass(r, m) == [r EXCEPT !.passed = Append(@, m)]

merge(r, other) ==
  [errors |-> r.errors \o other.errors,
   warnings |-> r.warnings \o other.warnings,
   passed |-> r.passed \o other.passed,
   fixes |-> r.fixes \o other.fixes]

\* r with each error of the sequence added, in order, without a Fix
RECURSIVE add_errors(_, _)
add_errors(r, ms) ==
  IF ms = <<>> THEN r ELSE add_errors(add_error(r, Head(ms), NoFix), Tail(ms))

\* r merged with results[1], results[2], ...
RECURSIVE merge_all(_, _)
merge_all(r, results) ==
  IF results = <<>> THEN r ELSE merge_all(merge(r, Head(results)), Tail(results))

(***************************************************************************)
(* SCHEMA DEFINITIONS                                                      *)
(***************************************************************************)
ALLOWED_FIELDS ==
  [marketplace |-> {"$schema", "name", "owner", "plugins", "description", "version",
                    "homepage", "metadata"},
   owner |-> {"name", "email", "url"},
   metadata |-> {"description", "version", "pluginRoot"},
   plugin |-> {"name", "source", "description", "version", "author", "homepage",
               "repository", "license", "keywords", "category", "tags", "strict",
               "commands", "agents", "skills", "hooks", "mcpServers", "lspServers"},
   author |-> {"name", "email"}]

\* the sets are listed in a fixed order; Python iterates them in hash order
REQUIRED_FIELDS ==
  [marketplace |-> <<"name", "owner", "plugins">>,
   owner |-> <<"name">>,
   plugin |-> <<"name", "source">>]

RESERVED_NAMES ==
  {<<"claude-code-marketplace">>, <<"claude-plugins-official">>, <<"anthropic-marketplace">>,
   <<"anthropic-plugins">>, <<"claude-code-plugins">>, <<"agent-skills">>, <<"life-sciences">>}

\* SCHEMA["kebab_case"]: a name is one word; the words below stand for the
\* names the pattern rejects
NOT_KEBAB_WORDS == {"My_Plugin", "MyPlugin", " "}
kebab_case(name) == Len(name) = 1 /\ name[1] \notin NOT_KEBAB_WORDS

\* SCHEMA["repo_format"]: ^[^/]+/[^/]+$
repo_format(s) ==
  Len(s) >= 3 /\ Cardinality({ i \in 1..Len(s) : s[i] = "/" }) = 1
  /\ s[1] # "/" /\ s[Len(s)] # "/"

\* SCHEMA["url_format"]: ^https?://
url_format(s) == s # <<>> /\ Head(s) \in {"http://", "https://"}

\* a value Python treats as true
truthy(j) ==
  CASE j.t = "null" -> FALSE
    [] j.t = "str" -> j.v # <<>>
    [] j.t = "list" -> j.v # <<>>
    [] j.t = "obj" -> DOMAIN j.v # {}
    [] j.t = "bool" -> j.b
    [] OTHER -> TRUE

\* the items a "for x in plugin.get(key, [])" loop visits
items_of(plugin, key) ==
  LET v == get(plugin, key, JL(<<>>)) IN IF islist(v) THEN v.v ELSE <<>>

PathArgs(marketplace_path, item_type, old_path, new_path) ==
  [marketplace_path |-> marketplace_path, item_type |-> item_type,
   old_path |-> old_path, new_path |-> new_path]

FixPath(marketplace_path, item_type, old_path, new_path) ==
  Fix(<<"Fix path to", new_path>>, "fix_path_format",
      PathArgs(marketplace_path, item_type, old_path, new_path))

FixSource(marketplace_path, what, plugin_idx, new_source) ==
  Fix(<<what, new_source>>, "fix_source_path",
      [marketplace_path |-> marketplace_path, plugin_idx |-> plugin_idx, new_source |-> new_source])

FixGithub(marketplace_path, what, plugin_idx) ==
  Fix(<<what, <<>>>>, "fix_github_source_format",
      [marketplace_path |-> marketplace_path, plugin_idx |-> plugin_idx])

FixRepository(marketplace_path, plugin_idx) ==
  Fix(<<"Fix repository format", <<>>>>, "fix_repository_to_string",
      [marketplace_path |-> marketplace_path, plugin_idx |-> plugin_idx])

\* variant of validate_source_schema that reports the "type" key under the code of a
\* malformed source
validate_source_schema_OneCode(source, idx, marketplace_path) ==
  LET r == ValidationResult
  IN CASE source.t = "null" \/ (isstr(source) /\ source.v = <<>>) ->
            add_error(r, Msg("E014", "source is empty/null", idx, <<>>), NoFix)
       [] isstr(source) /\ source.v # <<>> ->
            IF source.v \in {GITHUB, URL}
            THEN add_error(r, Msg("E005", "source must be object", idx, source.v),
                           FixGithub(marketplace_path, "Fix source format", idx))
            ELSE IF source.v = <<".">>
            THEN add_error(r, Msg("E011", "source is . but must be ./", idx, source.v),
                           FixSource(marketplace_path, "Fix source to ./", idx, DOTSLASH))
            ELSE IF ~startswith(source.v, DOTSLASH)
            THEN add_error(r, Msg("E011", "source must start with ./", idx, source.v),
                           FixSource(marketplace_path, "Fix source path", idx, DOTSLASH \o source.v))
            ELSE r
       [] isdict(source) ->
            IF has(source, "type") /\ ~has(source, "source")
            THEN add_error(r, Msg("E014", "source uses type key", idx, <<>>), NoFix)
            ELSE IF ~has(source, "source")
            THEN add_error(r, Msg("E014", "source object missing source key", idx, <<>>), NoFix)
            ELSE LET source_type == source.v["source"]
                 IN IF isstr(source_type) /\ source_type.v = GITHUB
                    THEN IF ~has(source, "repo")
                         THEN add_error(r, Msg("E014", "source.repo is required", idx, <<>>), NoFix)
                         ELSE IF ~(isstr(source.v["repo"]) /\ repo_format(source.v["repo"].v))
                         THEN add_error(r, Msg("E015", "source.repo must be owner/repo", idx, <<>>), NoFix)
                         ELSE r
                    ELSE IF isstr(source_type) /\ source_type.v = URL
                    THEN IF ~has(source, "url")
                         THEN add_error(r, Msg("E014", "source.url is required", idx, <<>>), NoFix)
                         ELSE IF ~(isstr(source.v["url"]) /\ url_format(source.v["url"].v))
                         THEN add_error(r, Msg("E015", "source.url must be http(s)", idx, <<>>), NoFix)
                         ELSE r
                    ELSE add_error(r, Msg("E015", "source.source must be github or url", idx, <<>>), NoFix)
       [] OTHER ->
            add_error(r, Msg("E014", "source must be string or object", idx, <<>>), NoFix)

validate_source_schema(source, idx, marketplace_path) ==
  LET r == ValidationResult
  IN CASE source.t = "null" \/ (isstr(source) /\ source.v = <<>>) ->
            add_error(r, Msg("E014", "source is empty/null", idx, <<>>), NoFix)
       [] isstr(source) /\ source.v # <<>> ->
            IF source.v \in {GITHUB, URL}
            THEN add_error(r, Msg("E005", "source must be object", idx, source.v),
                           FixGithub(marketplace_path, "Fix source format", idx))
            ELSE IF source.v = <<".">>
            THEN add_error(r, Msg("E011", "source is . but must be ./", idx, source.v),
                           FixSource(marketplace_path, "Fix source to ./", idx, DOTSLASH))
            ELSE IF ~startswith(source.v, DOTSLASH)
            THEN add_error(r, Msg("E011", "source must start with ./", idx, source.v),
                           FixSource(marketplace_path, "Fix source path", idx, DOTSLASH \o source.v))
            ELSE r
       [] isdict(source) ->
            IF has(source, "type") /\ ~has(source, "source")
            THEN add_error(r, Msg("E006", "source uses type key", idx, <<>>), NoFix)
            ELSE IF ~has(source, "source")
            THEN add_error(r, Msg("E014", "source object missing source key", idx, <<>>), NoFix)
            ELSE LET source_type == source.v["source"]
                 IN IF isstr(source_type) /\ source_type.v = GITHUB
                    THEN IF ~has(source, "repo")
                         THEN add_error(r, Msg("E014", "source.repo is required", idx, <<>>), NoFix)
                         ELSE IF ~(isstr(source.v["repo"]) /\ repo_format(source.v["repo"].v))
                         THEN add_error(r, Msg("E015", "source.repo must be owner/repo", idx, <<>>), NoFix)
                         ELSE r
                    ELSE IF isstr(source_type) /\ source_type.v = URL
                    THEN IF ~has(source, "url")
                         THEN add_error(r, Msg("E014", "source.url is required", idx, <<>>), NoFix)
                         ELSE IF ~(isstr(source.v["url"]) /\ url_format(source.v["url"].v))
                         THEN add_error(r, Msg("E015", "source.url must be http(s)", idx, <<>>), NoFix)
                         ELSE r
                    ELSE add_error(r, Msg("E015", "source.source must be github or url", idx, <<>>), NoFix)
       [] OTHER ->
            add_error(r, Msg("E014", "source must be string or object", idx, <<>>), NoFix)

\* the body of the commands loop and of the agents loop of validate_path_arrays
RECURSIVE md_file_items(_, _, _, _, _, _)
md_file_items(r, items, i, idx, item_type, marketplace_path) ==
  IF i > Len(items) THEN r
  ELSE LET item == items[i]
           r1 == IF ~isstr(item)
                 THEN add_error(r, Msg("E014", item_type \o " item must be string", idx, <<>>), NoFix)
                 ELSE LET r2 == IF ~startswith(item.v, DOTSLASH)
                                THEN add_error(r, Msg("E011", item_type \o " item must start with ./",
                                                      idx, item.v), NoFix)
                                ELSE r
                      IN IF ~endswith(item.v, MD)
                         THEN add_error(r2, Msg(IF item_type = "commands" THEN "E003" ELSE "E004",
                                                item_type \o " item must end with .md", idx, item.v),
                                        FixPath(marketplace_path, item_type, item.v, item.v \o MD))
                         ELSE r2
       IN md_file_items(r1, items, i + 1, idx, item_type, marketplace_path)

\* skill.replace(".md", "").rstrip("/")
skill_correct_path(skill) == rstrip(replace(skill, MD, <<>>), {"/"})

\* the body of the skills loop of validate_path_arrays
RECURSIVE skill_items(_, _, _, _, _)
skill_items(r, items, i, idx, marketplace_path) ==
  IF i > Len(items) THEN r
  ELSE LET item == items[i]
           r1 == IF ~isstr(item)
                 THEN add_error(r, Msg("E014", "skills item must be string", idx, <<>>), NoFix)
                 ELSE LET r2 == IF ~startswith(item.v, DOTSLASH)
                                THEN add_error(r, Msg("E011", "skills item must start with ./",
                                                      idx, item.v), NoFix)
                                ELSE r
                      IN IF endswith(item.v, MD)
                         THEN add_error(r2, Msg("E002", "skills item has .md extension", idx, item.v),
                                        FixPath(marketplace_path, "skills", item.v,
                                                skill_correct_path(item.v)))
                         ELSE r2
       IN skill_items(r1, items, i + 1, idx, marketplace_path)

hooks_path_check(plugin, idx) ==
  LET r == ValidationResult
      hooks_path == get(plugin, "hooks", JNull)
  IN IF hooks_path = JNull THEN r
     ELSE IF isstr(hooks_path)
     THEN LET r1 == IF ~startswith(hooks_path.v, DOTSLASH)
                    THEN add_error(r, Msg("E011", "hooks must start with ./", idx, hooks_path.v), NoFix)
                    ELSE r
          IN IF ~endswith(hooks_path.v, JSONEXT)
             THEN add_error(r1, Msg("E014", "hooks must end with .json", idx, hooks_path.v), NoFix)
             ELSE r1
     ELSE IF islist(hooks_path)
     THEN add_error(r, Msg("E014", "hooks must be string path, not array", idx, <<>>), NoFix)
     ELSE add_error(r, Msg("E014", "hooks must be string path", idx, <<>>), NoFix)

validate_path_arrays(plugin, idx, marketplace_path) ==
  LET r1 == md_file_items(ValidationResult, items_of(plugin, "commands"), 1, idx,
                          "commands", marketplace_path)
      r2 == md_file_items(r1, items_of(plugin, "agents"), 1, idx, "agents", marketplace_path)
      r3 == skill_items(r2, items_of(plugin, "skills"), 1, idx, marketplace_path)
  IN merge(r3, hooks_path_check(plugin, idx))

\* the errors of one key list: Msg for every key of keys (in order) that test rejects
RECURSIVE key_errors(_, _, _, _, _)
key_errors(keys, present, code, kind, idx) ==
  IF keys = <<>> THEN <<>>
  ELSE (IF Head(keys) \in present THEN <<>> ELSE <<Msg(code, kind, idx, <<Head(keys)>>)>>)
       \o key_errors(Tail(keys), present, code, kind, idx)

\* the body of the "for i, plugin in enumerate(plugins)" loop of validate_schema_static
schema_plugin_entry(plugin, idx, marketplace_path) ==
  LET r == ValidationResult
  IN IF ~isdict(plugin)
     THEN add_error(r, Msg("E014", "plugin must be an object", idx, <<>>), NoFix)
     ELSE LET r1 == add_errors(r, key_errors(REQUIRED_FIELDS.plugin, DOMAIN plugin.v,
                                             "E014", "plugin field is required", idx))
              r2 == IF (DOMAIN plugin.v) \ ALLOWED_FIELDS.plugin # {}
                    THEN add_error(r1, Msg("E013", "plugin: Unrecognized field(s)", idx, <<>>), NoFix)
                    ELSE r1
              r3 == IF has(plugin, "components")
                    THEN add_error(r2, Msg("E013", "plugin.components is not valid", idx, <<>>), NoFix)
                    ELSE r2
              r4 == IF has(plugin, "repo")
                    THEN add_error(r3, Msg("E007", "plugin.repo is at plugin level", idx, <<>>),
                                   FixGithub(marketplace_path, "Fix GitHub source format", idx))
                    ELSE r3
              source == get(plugin, "source", JNull)
              r5 == IF source # JNull
                    THEN merge(r4, validate_source_schema(source, idx, marketplace_path))
                    ELSE r4
              r6 == merge(r5, validate_path_arrays(plugin, idx, marketplace_path))
          IN IF has(plugin, "repository") /\ isdict(plugin.v["repository"])
             THEN add_error(r6, Msg("E008", "plugin.repository must be string", idx, <<>>),
                            FixRepository(marketplace_path, idx))
             ELSE r6

\* the marketplace root checks of validate_schema_static: fields, name, owner
schema_root(data) ==
  LET r1 == add_errors(ValidationResult,
                       key_errors(REQUIRED_FIELDS.marketplace, DOMAIN data.v,
                                  "E014", "Missing required field", 0))
      r2 == IF (DOMAIN data.v) \ ALLOWED_FIELDS.marketplace # {}
            THEN add_error(r1, Msg("E013", "Unrecognized field(s) at marketplace root", 0, <<>>), NoFix)
            ELSE r1
      name == get(data, "name", JS(<<>>))
      r3 == IF truthy(name)
            THEN IF name.v \in RESERVED_NAMES
                 THEN add_error(r2, Msg("E015", "Reserved name", 0, name.v), NoFix)
                 ELSE IF " " \in SeqToSet(name.v)
                 THEN add_error(r2, Msg("E015", "Name contains spaces", 0, name.v), NoFix)
                 ELSE IF ~kebab_case(name.v)
                 THEN add_warning(r2, Msg("", "Name is not kebab-case", 0, name.v), NoFix)
                 ELSE r2
            ELSE add_error(r2, Msg("E014", "Missing 'name' field", 0, <<>>), NoFix)
      owner == get(data, "owner", JNull)
  IN IF ~truthy(owner) THEN r3
     ELSE IF ~isdict(owner)
     THEN add_error(r3, Msg("E014", "'owner' must be an object", 0, <<>>), NoFix)
     ELSE LET r4 == IF ~has(owner, "name")
                    THEN add_error(r3, Msg("E014", "owner.name is required", 0, <<>>), NoFix)
                    ELSE r3
          IN IF (DOMAIN owner.v) \ ALLOWED_FIELDS.owner # {}
             THEN add_error(r4, Msg("E013", "Unrecognized owner field(s)", 0, <<>>), NoFix)
             ELSE r4

validate_schema_static(fs, marketplace_path) ==
  IF ~exists(fs, marketplace_path)
  THEN add_error(ValidationResult, Msg("E014", "marketplace.json not found", 0, <<>>), NoFix)
  ELSE IF ~load_json(fs, marketplace_path).ok
  THEN add_error(ValidationResult, Msg("E014", "Invalid JSON", 0, <<>>), NoFix)
  ELSE LET data == load_json(fs, marketplace_path).v
           r == schema_root(data)
           plugins == get(data, "plugins", JL(<<>>))
       IN IF ~islist(plugins)
          THEN add_error(r, Msg("E014", "'plugins' must be an array", 0, <<>>), NoFix)
          ELSE IF plugins.v = <<>>
          THEN add_error(r, Msg("E014", "'plugins' array is empty", 0, <<>>), NoFix)
          ELSE merge_all(r, [i \in 1..Len(plugins.v) |->
                               schema_plugin_entry(plugins.v[i], i, marketplace_path)])

(***************************************************************************)
(* PHASE 2: file and content validation                                    *)
(***************************************************************************)
COMPONENT_TYPES == <<"commands", "agents", "skills", "hooks">>

\* "items = plugin.get(component_type, []); if isinstance(items, str): items = [items]"
component_items(plugin, component_type) ==
  LET v == get(plugin, component_type, JL(<<>>))
  IN IF isstr(v) THEN <<v>> ELSE IF islist(v) THEN v.v ELSE <<>>

\* the effective root validate_component_locations derives from a plugin's source
locations_effective_root(plugin_root, source) ==
  IF isdict(source) THEN plugin_root
  ELSE IF isstr(source) /\ source.v \in {<<".">>, DOTSLASH} THEN plugin_root
  ELSE IF isstr(source) /\ startswith(source.v, DOTSLASH)
  THEN PJoin(plugin_root, lstrip(source.v, {".", "/"}))
  ELSE plugin_root

\* the effective root main derives from a plugin's source
main_effective_root(plugin_root, source) ==
  IF isdict(source) THEN plugin_root
  ELSE IF isstr(source) /\ source.v \in {<<".">>, DOTSLASH} THEN plugin_root
  ELSE IF isstr(source) /\ source.v \notin {GITHUB, URL}
  THEN PJoin(plugin_root, lstrip(source.v, {".", "/"}))
  ELSE plugin_root

FixSkillStructure(plugin_root, item_path) ==
  Fix(<<"Convert to directory structure", item_path>>, "fix_skill_structure",
      [plugin_root |-> plugin_root, skill_path |-> item_path])

\* the body of the "for item_path in items" loop of validate_component_locations
location_item(fs, plugin_root, effective_root, component_type, item) ==
  LET r == ValidationResult
  IN IF ~isstr(item) THEN r
     ELSE LET item_path == item.v
              normalized == lstrip(item_path, {".", "/"})
              full_path == PJoin(effective_root, normalized)
              wrong_location == PJoin(PJoin(effective_root, CP), normalized)
          IN IF ~exists(fs, full_path)
             THEN IF exists(fs, wrong_location)
                  THEN add_error(r, Msg("E001", component_type \o ": found inside .claude-plugin/",
                                        0, item_path), NoFix)
                  ELSE add_error(r, Msg("E012", component_type \o ": not found", 0, item_path), NoFix)
             ELSE IF component_type = "skills"
             THEN IF is_file(fs, full_path)
                  THEN add_error(r, Msg("E002", "skills: is a file", 0, item_path),
                                 FixSkillStructure(plugin_root, item_path))
                  ELSE IF ~exists(fs, PJoin(full_path, SKILL_MD))
                  THEN add_error(r, Msg("E009", "skills: directory missing SKILL.md", 0, item_path), NoFix)
                  ELSE add_pass(r, Msg("", "skills: structure valid", 0, item_path))
             ELSE IF component_type = "hooks"
             THEN IF is_dir(fs, full_path)
                  THEN IF exists(fs, PJoin(full_path, <<"hooks", ".", "json">>))
                       THEN add_pass(r, Msg("", "hooks: hooks.json exists", 0, item_path))
                       ELSE add_warning(r, Msg("", "hooks: directory missing hooks.json", 0, item_path), NoFix)
                  ELSE IF endswith(item_path, JSONEXT)
                  THEN add_pass(r, Msg("", "hooks: exists", 0, item_path))
                  ELSE add_warning(r, Msg("", "hooks: should be .json file", 0, item_path), NoFix)
             ELSE IF is_dir(fs, full_path)
             THEN add_error(r, Msg(IF component_type = "commands" THEN "E003" ELSE "E004",
                                   component_type \o ": is a directory", 0, item_path), NoFix)
             ELSE add_pass(r, Msg("", component_type \o ": exists", 0, item_path))

\* the registered-component loop of validate_component_locations for one plugin
location_plugin(fs, plugin_root, plugin) ==
  LET effective_root == locations_effective_root(plugin_root, get(plugin, "source", JS(DOTSLASH)))
  IN merge_all(ValidationResult,
       Concat([t \in 1..Len(COMPONENT_TYPES) |->
                 LET items == component_items(plugin, COMPONENT_TYPES[t])
                 IN [j \in 1..Len(items) |->
                       location_item(fs, plugin_root, effective_root, COMPONENT_TYPES[t], items[j])]]))

\* the ".claude-plugin/<type>/ should be at root" check of validate_component_locations
wrong_dir_check(fs, plugin_root, component_type) ==
  LET wrong_dir == PJoin(PJoin(plugin_root, CP), <<component_type>>)
  IN IF exists(fs, wrong_dir) /\ is_dir(fs, wrong_dir) /\ iterdir(fs, wrong_dir) # {}
     THEN IF component_type = "skills"
          THEN add_error(ValidationResult,
                         Msg("E001", "skills/ is inside .claude-plugin/", 0, <<>>),
                         Fix(<<"Move and fix .claude-plugin/", <<component_type>>>>,
                             "fix_skills_complete", [plugin_root |-> plugin_root]))
          ELSE add_error(ValidationResult,
                         Msg("E001", component_type \o "/ is inside .claude-plugin/", 0, <<>>),
                         Fix(<<"Move .claude-plugin/ to ./", <<component_type>>>>,
                             "fix_move_component_to_root",
                             [plugin_root |-> plugin_root, component_type |-> <<component_type>>]))
     ELSE ValidationResult

validate_component_locations(fs, plugin_root, marketplace_path) ==
  IF ~exists(fs, marketplace_path) \/ ~load_json(fs, marketplace_path).ok THEN ValidationResult
  ELSE LET plugins == plugins_of(load_json(fs, marketplace_path).v).v
       IN merge_all(
            merge_all(ValidationResult,
                      [i \in 1..Len(plugins) |-> location_plugin(fs, plugin_root, plugins[i])]),
            [t \in 1..Len(COMPONENT_TYPES) |-> wrong_dir_check(fs, plugin_root, COMPONENT_TYPES[t])])

\* main only ever passes .claude-plugin/marketplace.json or <root>/plugin.json, so
\* resolve_base is the plugin root and no E016/E017 is reported
validate_path_resolution_consistency(fs, plugin_root, marketplace_path) ==
  IF ~exists(fs, marketplace_path) \/ ~load_json(fs, marketplace_path).ok THEN ValidationResult
  ELSE add_pass(add_pass(ValidationResult,
                         Msg("", "path resolution base is plugin root", 0, <<>>)),
                Msg("", "Path resolution consistency check passed", 0, <<>>))

\* the body of the plugin loop of validate_github_source_with_local_files
github_local_plugin(fs, plugin_root, plugin, idx) ==
  LET source == get(plugin, "source", JNull)
      local == { c \in SeqToSet(Concat([t \in 1..Len(COMPONENT_TYPES) |->
                                           component_items(plugin, COMPONENT_TYPES[t])])) :
                   isstr(c) /\ exists(fs, PJoin(plugin_root, lstrip(c.v, {".", "/"}))) }
  IN IF isdict(source) /\ get(source, "source", JNull) = JS(GITHUB) /\ local # {}
     THEN add_warning(add_error(ValidationResult,
                                Msg("E016", "GitHub source but LOCAL files exist", idx, <<>>), NoFix),
                      Msg("", "FIX OPTIONS", idx, <<>>), NoFix)
     ELSE ValidationResult

validate_github_source_with_local_files(fs, plugin_root, marketplace_path) ==
  IF ~exists(fs, marketplace_path) \/ ~load_json(fs, marketplace_path).ok THEN ValidationResult
  ELSE LET plugins == plugins_of(load_json(fs, marketplace_path).v).v
       IN merge_all(ValidationResult,
                    [i \in 1..Len(plugins) |-> github_local_plugin(fs, plugin_root, plugins[i], i)])

(***************************************************************************)
(* Frontmatter.  A parsed frontmatter is the sequence of its KV lines (a   *)
(* dict in insertion order); fm = <<>> is the empty dict or None.          *)
(***************************************************************************)
\* the "key: value" lines between the two "---" markers
RECURSIVE kv_lines(_)
kv_lines(toks) ==
  IF toks = <<>> THEN <<>>
  ELSE IF Head(toks).c = "kv" THEN <<Head(toks)>> \o kv_lines(Tail(toks))
  ELSE kv_lines(Tail(toks))

\* yaml.safe_load rejects a plain scalar that holds ": " ("mapping values are
\* not allowed here") and a block that mixes mapping lines with other text
yaml_rejects(toks) ==
  \E i \in 1..Len(toks) :
     \/ toks[i].c \notin {"kv", "NL"}
     \/ toks[i].c = "kv" /\ ":" \in SeqToSet(toks[i].val)

\* parse_frontmatter: [fm, error]; yaml tells whether PyYAML was importable
parse_frontmatter(content, yaml) ==
  IF content = <<>> \/ Head(content) # Dash
  THEN [fm |-> <<>>, error |-> "No frontmatter found"]
  ELSE LET end_idx == FirstIdxFrom(content, Dash, 2)
       IN IF end_idx = 0 THEN [fm |-> <<>>, error |-> "substring not found"]
          ELSE LET yaml_content == SubSeq(content, 2, end_idx - 1)
               IN IF yaml /\ yaml_rejects(yaml_content)
                  THEN [fm |-> <<>>, error |-> "yaml error"]
                  ELSE [fm |-> kv_lines(yaml_content), error |-> ""]

\* fm.get(key): the value, <<>> when absent
fm_get(fm, key) ==
  IF \E i \in 1..Len(fm) : fm[i].key = key
  THEN fm[CHOOSE i \in 1..Len(fm) : fm[i].key = key].val
  ELSE <<>>

\* fm[key] = val
fm_set(fm, key, val) ==
  IF \E i \in 1..Len(fm) : fm[i].key = key
  THEN [i \in 1..Len(fm) |-> IF fm[i].key = key THEN KV(key, val) ELSE fm[i]]
  ELSE Append(fm, KV(key, val))

FixFrontmatter(descr, file, fm) ==
  Fix(<<descr, file>>, "fix_add_frontmatter", [path |-> file, frontmatter |-> fm])

file_text(fs, p) == IF read_text(fs, p).ok THEN read_text(fs, p).v ELSE <<>>

\* the body of the commands loop of validate_frontmatter_fields
frontmatter_command(fs, cmd_file, yaml) ==
  LET p == parse_frontmatter(file_text(fs, cmd_file), yaml)
      stem == PStem(cmd_file)
      r == ValidationResult
  IN IF p.error # "" \/ p.fm = <<>>
     THEN add_error(r, Msg("", IF p.error # "" THEN p.error ELSE "Missing frontmatter", 0, cmd_file),
                    FixFrontmatter("Add frontmatter to", cmd_file,
                                   <<KV("description", TodoFor(stem)),
                                     KV("argument-hint", <<"[optional args]">>),
                                     KV("allowed-tools", TOOLS5)>>))
     ELSE IF fm_get(p.fm, "description") = <<>>
     THEN add_error(r, Msg("", "Missing 'description' field", 0, cmd_file),
                    FixFrontmatter("Add description to", cmd_file,
                                   fm_set(p.fm, "description", TodoFor(stem))))
     ELSE IF "TODO" \in SeqToSet(fm_get(p.fm, "description"))
     THEN add_warning(r, Msg("", "description contains TODO", 0, cmd_file), NoFix)
     ELSE add_pass(r, Msg("", "frontmatter valid", 0, cmd_file))

\* the name / description / tools checks shared by the agents and skills loops:
\* [r, fm, needs_fix] after the checks named in keys
RECURSIVE missing_fields(_, _, _, _)
missing_fields(st, keys, defaults, file) ==
  IF keys = <<>> THEN st
  ELSE missing_fields(
         IF fm_get(st.fm, Head(keys)) = <<>>
         THEN [r |-> add_error(st.r, Msg("", "Missing '" \o Head(keys) \o "' field", 0, file), NoFix),
               fm |-> fm_set(st.fm, Head(keys), defaults[Head(keys)]),
               needs_fix |-> TRUE]
         ELSE st,
         Tail(keys), defaults, file)

\* the body of the agents loop of validate_frontmatter_fields
frontmatter_agent(fs, agent_file, yaml) ==
  LET p == parse_frontmatter(file_text(fs, agent_file), yaml)
      stem == PStem(agent_file)
      r == ValidationResult
  IN IF p.error # "" \/ p.fm = <<>>
     THEN add_error(r, Msg("", IF p.error # "" THEN p.error ELSE "Missing frontmatter", 0, agent_file),
                    FixFrontmatter("Add frontmatter to", agent_file,
                                   <<KV("name", stem), KV("description", TodoFor(stem)),
                                     KV("tools", TOOLS5), KV("model", <<"sonnet">>)>>))
     ELSE LET st == missing_fields([r |-> r, fm |-> p.fm, needs_fix |-> FALSE],
                                   <<"name", "description", "tools">>,
                                   [name |-> stem, description |-> TodoFor(stem), tools |-> TOOLS3],
                                   agent_file)
          IN IF st.needs_fix
             THEN [st.r EXCEPT !.fixes = Append(@, FixFrontmatter("Fix frontmatter in", agent_file, st.fm))]
             ELSE IF "TODO" \notin SeqToSet(fm_get(st.fm, "description"))
             THEN add_pass(st.r, Msg("", "frontmatter valid", 0, agent_file))
             ELSE st.r

\* the body of the skills loop of validate_frontmatter_fields
frontmatter_skill(fs, skill_dir, yaml) ==
  LET skill_md == PJoin(skill_dir, SKILL_MD)
      name == PName(skill_dir)
      r == ValidationResult
  IN IF ~is_dir(fs, skill_dir) \/ ~exists(fs, skill_md) THEN r
     ELSE LET p == parse_frontmatter(file_text(fs, skill_md), yaml)
          IN IF p.error # "" \/ p.fm = <<>>
             THEN add_error(r, Msg("", IF p.error # "" THEN p.error ELSE "Missing frontmatter",
                                   0, skill_md),
                            FixFrontmatter("Add frontmatter to", skill_md,
                                           <<KV("name", name), KV("description", TodoFor(name)),
                                             KV("allowed-tools", TOOLS3)>>))
             ELSE LET had_description == fm_get(p.fm, "description") # <<>>
                      st == missing_fields([r |-> r, fm |-> p.fm, needs_fix |-> FALSE],
                                           <<"name", "description">>,
                                           [name |-> name, description |-> TodoFor(name)],
                                           skill_md)
                      r2 == IF ~had_description THEN st.r
                            ELSE IF "TODO" \in SeqToSet(fm_get(p.fm, "description"))
                            THEN add_warning(st.r, Msg("", "description contains TODO", 0, skill_md), NoFix)
                            ELSE IF ~st.needs_fix
                            THEN add_pass(st.r, Msg("", "frontmatter valid", 0, skill_md))
                            ELSE st.r
                  IN IF st.needs_fix
                     THEN [r2 EXCEPT !.fixes = Append(@, FixFrontmatter("Fix frontmatter in", skill_md, st.fm))]
                     ELSE r2

validate_frontmatter_fields(fs, plugin_root, yaml) ==
  LET commands_dir == PJoin(plugin_root, <<"commands">>)
      agents_dir == PJoin(plugin_root, <<"agents">>)
      skills_dir == PJoin(plugin_root, <<"skills">>)
      cmds == IF exists(fs, commands_dir) THEN SetToSeq(glob_md(fs, commands_dir)) ELSE <<>>
      agents == IF exists(fs, agents_dir) THEN SetToSeq(glob_md(fs, agents_dir)) ELSE <<>>
      skills == IF exists(fs, skills_dir) THEN SetToSeq(iterdir(fs, skills_dir)) ELSE <<>>
  IN merge_all(ValidationResult,
       [i \in 1..Len(cmds) |-> frontmatter_command(fs, cmds[i], yaml)]
       \o [i \in 1..Len(agents) |-> frontmatter_agent(fs, agents[i], yaml)]
       \o [i \in 1..Len(skills) |-> frontmatter_skill(fs, skills[i], yaml)])

(***************************************************************************)
(* validate_registration.  The registered lists are JSON lists of strings  *)
(* here; st is [r, registered_set] while a list is walked.                 *)
(***************************************************************************)
registered(plugin_data, key) ==
  LET v == get(plugin_data, key, JL(<<>>))
  IN IF islist(v) THEN [i \in 1..Len(v.v) |-> v.v[i].v] ELSE <<>>

FixStub(what, fn, path, name) == Fix(<<what, path>>, fn, [path |-> path, name |-> name])

FixAdd(marketplace_path, item_type, item_path) ==
  Fix(<<"Add to marketplace.json", item_path>>, "fix_add_to_marketplace",
      [marketplace_path |-> marketplace_path, item_type |-> item_type, item_path |-> item_path])

\* the loop over registered commands (kind = "commands") or agents ("agents")
RECURSIVE registered_md(_, _, _, _, _, _)
registered_md(st, fs, items, kind, dir, marketplace_path) ==
  IF items = <<>> THEN st
  ELSE LET cmd == Head(items)
           prefix_stripped == replace(replace(cmd, DOTSLASH \o <<kind, "/">>, <<>>),
                                      <<kind, "/">>, <<>>)
           name == IF ~endswith(cmd, MD) THEN prefix_stripped
                   ELSE replace(prefix_stripped, MD, <<>>)
           r1 == IF ~endswith(cmd, MD)
                 THEN add_error(st.r, Msg("", kind \o ": path missing .md extension", 0, cmd),
                                FixPath(marketplace_path, kind, cmd, cmd \o MD))
                 ELSE st.r
           file == PJoin(dir, name \o MD)
           r2 == IF exists(fs, file)
                 THEN IF endswith(cmd, MD)
                      THEN add_pass(r1, Msg("", kind \o ": registered and exists", 0, file))
                      ELSE r1
                 ELSE add_error(r1, Msg("", kind \o ": NOT FOUND", 0, file),
                                FixStub("Create stub", IF kind = "commands"
                                                       THEN "fix_create_command_stub"
                                                       ELSE "fix_create_agent_stub", file, name))
       IN registered_md([r |-> r2, registered_set |-> st.registered_set \cup {name}],
                        fs, Tail(items), kind, dir, marketplace_path)

\* the loop over the files found on disk that are not registered
RECURSIVE unregistered_md(_, _, _, _, _)
unregistered_md(r, actual, registered_set, kind, marketplace_path) ==
  IF actual = <<>> THEN r
  ELSE unregistered_md(
         IF Head(actual) \notin registered_set
         THEN add_error(r, Msg("", kind \o ": exists but NOT REGISTERED", 0,
                               <<kind, "/">> \o Head(actual) \o MD),
                        FixAdd(marketplace_path, kind, <<kind, "/">> \o Head(actual) \o MD))
         ELSE r,
         Tail(actual), registered_set, kind, marketplace_path)

\* the commands block (kind = "commands") or the agents block (kind = "agents")
registration_md(fs, plugin_root, plugin_data, kind, marketplace_path) ==
  LET dir == PJoin(plugin_root, <<kind>>)
  IN IF ~exists(fs, dir) THEN ValidationResult
     ELSE LET actual == { PStem(f) : f \in glob_md(fs, dir) }
              st == registered_md([r |-> ValidationResult, registered_set |-> {}], fs,
                                  registered(plugin_data, kind), kind, dir, marketplace_path)
          IN unregistered_md(st.r, SetToSeq(actual), st.registered_set, kind, marketplace_path)

\* the loop over registered skills
RECURSIVE registered_skills(_, _, _, _, _)
registered_skills(st, fs, items, skills_dir, marketplace_path) ==
  IF items = <<>> THEN st
  ELSE LET skill == Head(items)
           prefix_stripped == replace(replace(skill, <<".", "/", "skills", "/">>, <<>>),
                                      <<"skills", "/">>, <<>>)
           name == IF endswith(skill, MD) THEN rstrip(replace(prefix_stripped, MD, <<>>), {"/"})
                   ELSE rstrip(prefix_stripped, {"/"})
           r1 == IF endswith(skill, MD)
                 THEN add_error(st.r, Msg("", "skills: path has .md extension", 0, skill),
                                FixPath(marketplace_path, "skills", skill, skill_correct_path(skill)))
                 ELSE st.r
           dir == PJoin(skills_dir, name)
           r2 == IF exists(fs, PJoin(dir, SKILL_MD))
                 THEN IF ~endswith(skill, MD)
                      THEN add_pass(r1, Msg("", "skills: registered and exists", 0, dir))
                      ELSE r1
                 ELSE IF exists(fs, dir)
                 THEN add_error(r1, Msg("", "skills: exists but missing SKILL.md", 0, dir),
                                FixStub("Create SKILL.md", "fix_create_skill_stub", dir, name))
                 ELSE add_error(r1, Msg("", "skills: NOT FOUND", 0, dir),
                                FixStub("Create with SKILL.md", "fix_create_skill_stub", dir, name))
       IN registered_skills([r |-> r2, registered_set |-> st.registered_set \cup {name}],
                            fs, Tail(items), skills_dir, marketplace_path)

RECURSIVE unregistered_skills(_, _, _, _, _, _)
unregistered_skills(r, fs, actual, registered_set, skills_dir, marketplace_path) ==
  IF actual = <<>> THEN r
  ELSE unregistered_skills(
         IF Head(actual) \notin registered_set
            /\ exists(fs, PJoin(PJoin(skills_dir, Head(actual)), SKILL_MD))
         THEN add_error(r, Msg("", "skills: exists with SKILL.md but NOT REGISTERED", 0,
                               <<"skills", "/">> \o Head(actual)),
                        FixAdd(marketplace_path, "skills", <<"skills", "/">> \o Head(actual)))
         ELSE r,
         fs, Tail(actual), registered_set, skills_dir, marketplace_path)

registration_skills(fs, plugin_root, plugin_data, marketplace_path) ==
  LET skills_dir == PJoin(plugin_root, <<"skills">>)
  IN IF ~exists(fs, skills_dir) THEN ValidationResult
     ELSE LET actual == { PName(d) : d \in { e \in iterdir(fs, skills_dir) : is_dir(fs, e) } }
              st == registered_skills([r |-> ValidationResult, registered_set |-> {}], fs,
                                      registered(plugin_data, "skills"), skills_dir, marketplace_path)
          IN unregistered_skills(st.r, fs, SetToSeq(actual), st.registered_set,
                                 skills_dir, marketplace_path)

\* a component list of the plugin entry holds an item that is not a string
nonstring_item(plugin, component_type) ==
  LET v == get(plugin, component_type, JL(<<>>))
  IN islist(v) /\ \E j \in 1..Len(v.v) : ~isstr(v.v[j])

\* validate_registration raises AttributeError: inside "if commands_dir.exists()"
\* (agents_dir, skills_dir) it calls .endswith on every registered item
registration_raises(fs, plugin_root, plugin_data) ==
  \E t \in {"commands", "agents", "skills"} :
     exists(fs, PJoin(plugin_root, <<t>>)) /\ nonstring_item(plugin_data, t)

validate_registration(fs, plugin_root, plugin_data, marketplace_path) ==
  merge_all(ValidationResult,
            <<registration_md(fs, plugin_root, plugin_data, "commands", marketplace_path),
              registration_md(fs, plugin_root, plugin_data, "agents", marketplace_path),
              registration_skills(fs, plugin_root, plugin_data, marketplace_path)>>)

(***************************************************************************)
(* validate_scripts, validate_plugin_json, validate_hooks_json             *)
(***************************************************************************)
PY == <<".", "py">>

\* the body of the "for script in scripts_dir.glob('*.py')" loop
script_checks(fs, script) ==
  LET content == file_text(fs, script)
      r1 == IF content = <<>> \/ Head(content) # SHEBANG
            THEN add_warning(ValidationResult, Msg("", "Missing shebang", 0, script),
                             Fix(<<"Add shebang to", script>>, "fix_add_shebang", [path |-> script]))
            ELSE add_pass(ValidationResult, Msg("", "has shebang", 0, script))
  IN IF script \notin fs.xbits
     THEN add_warning(r1, Msg("", "Not executable", 0, script),
                      Fix(<<"Make executable", script>>, "fix_make_executable", [path |-> script]))
     ELSE r1

validate_scripts(fs, plugin_root) ==
  LET scripts_dir == PJoin(plugin_root, <<"scripts">>)
      scripts == SetToSeq({ f \in iterdir(fs, scripts_dir) : endswith(PName(f), PY) })
  IN IF ~exists(fs, scripts_dir) THEN ValidationResult
     ELSE merge_all(ValidationResult, [i \in 1..Len(scripts) |-> script_checks(fs, scripts[i])])

\* the E025 loop of validate_plugin_json: does the first matching entry of the
\* manifest carry another version than plugin.json
version_mismatch(fs, plugin_root, data) ==
  LET mp == load_json(fs, PJoin(plugin_root, MP_PATH))
      plugins == IF mp.ok /\ islist(get(mp.v, "plugins", JL(<<>>)))
                 THEN get(mp.v, "plugins", JL(<<>>)).v ELSE <<>>
      pj_version == get(data, "version", JS(<<>>))
      pj_name == get(data, "name", JS(<<>>))
      matches == { i \in 1..Len(plugins) :
                     get(plugins[i], "name", JS(<<>>)) = pj_name \/ Len(plugins) = 1 }
  IN /\ matches # {}
     /\ LET first == CHOOSE i \in matches : \A j \in matches : i <= j
            mp_version == get(plugins[first], "version", JS(<<>>))
        IN truthy(pj_version) /\ truthy(mp_version) /\ pj_version # mp_version

validate_plugin_json(fs, plugin_root) ==
  LET plugin_json == PJoin(plugin_root, CP_PLUGIN_JSON)
      ld == load_json(fs, plugin_json)
      data == ld.v
      unrecognized == (DOMAIN data.v) \ PLUGIN_JSON_ALLOWED
      bad_repository == has(data, "repository") /\ isdict(data.v["repository"])
      needs_fix == unrecognized # {} \/ bad_repository
      r1 == IF unrecognized # {}
            THEN add_error(ValidationResult,
                           Msg("", "plugin.json: removing invalid field(s)", 0, <<>>), NoFix)
            ELSE ValidationResult
      r2 == IF bad_repository
            THEN add_error(r1, Msg("", "plugin.json: converting repository object => string",
                                   0, <<>>), NoFix)
            ELSE r1
      r3 == IF version_mismatch(fs, plugin_root, data)
            THEN add_error(r2, Msg("E025", "Version mismatch", 0, <<>>), NoFix)
            ELSE r2
  IN IF ~exists(fs, plugin_json) THEN ValidationResult
     ELSE IF ~ld.ok
     THEN add_error(ValidationResult, Msg("", "plugin.json: Invalid JSON", 0, <<>>), NoFix)
     ELSE IF needs_fix
     THEN [r3 EXCEPT !.fixes = Append(@, Fix(<<"Fix plugin.json schema", <<>>>>,
                                             "fix_plugin_json_schema", [path |-> plugin_json]))]
     ELSE add_pass(r3, Msg("", "plugin.json: valid", 0, <<>>))

HOOKS_JSON == <<"hooks", ".", "json">>

\* validate_hooks_json down to the "hooks" object; the event entries inside it
\* are checked only for the empty object
validate_hooks_json(fs, plugin_root) ==
  LET locs == <<PJoin(PJoin(plugin_root, <<"hooks">>), HOOKS_JSON),
                PJoin(PJoin(plugin_root, CP), HOOKS_JSON)>>
      found == { i \in 1..2 : exists(fs, locs[i]) }
  IN IF found = {} THEN ValidationResult
     ELSE LET hooks_json == locs[CHOOSE i \in found : \A j \in found : i <= j]
              ld == load_json(fs, hooks_json)
          IN IF ~ld.ok
             THEN add_error(ValidationResult, Msg("E027", "hooks.json: Invalid JSON", 0, <<>>), NoFix)
             ELSE IF ~has(ld.v, "hooks")
             THEN add_error(ValidationResult, Msg("E027", "hooks.json: missing hooks", 0, <<>>), NoFix)
             ELSE IF ~isdict(ld.v.v["hooks"])
             THEN add_error(ValidationResult, Msg("E027", "hooks.json: hooks must be object", 0, <<>>),
                            NoFix)
             ELSE add_pass(ValidationResult, Msg("", "hooks.json: valid", 0, <<>>))

(***************************************************************************)
(* Checks of the host outside the plugin tree.  What they find is an input *)
(* of the run: env records the class of each host answer.                  *)
(***************************************************************************)
\* ~/.claude/settings.json: "clean", "warning" or "error" (E021, E022, E026)
validate_settings_json(env) ==
  IF env.settings = "error"
  THEN add_error(ValidationResult, Msg("E021", "settings.json", 0, <<>>), NoFix)
  ELSE IF env.settings = "warning"
  THEN add_warning(ValidationResult, Msg("", "settings.json", 0, <<>>), NoFix)
  ELSE ValidationResult

\* ~/.claude/plugins/known_marketplaces.json against the cached clones:
\* "absent", "consistent" or "mismatch" (E023, E024)
validate_marketplace_cache_consistency(env) ==
  IF env.known_marketplaces = "mismatch"
  THEN add_error(ValidationResult, Msg("E023", "known_marketplaces.json", 0, <<>>), NoFix)
  ELSE IF env.known_marketplaces = "consistent"
  THEN add_pass(ValidationResult, Msg("", "Marketplace cache consistency: all passed", 0, <<>>))
  ELSE ValidationResult

\* subprocess.run(["claude", "plugin", "validate", ...]): [success, available, errors]
run_claude_cli_validation(env) ==
  CASE env.cli = "pass" -> [success |-> TRUE, available |-> TRUE, errors |-> <<>>]
    [] env.cli = "fail" -> [success |-> FALSE, available |-> TRUE, errors |-> <<"output line">>]
    [] env.cli = "notfound" -> [success |-> TRUE, available |-> FALSE, errors |-> <<>>]
    [] env.cli = "timeout" -> [success |-> FALSE, available |-> TRUE, errors |-> <<"Timeout">>]
    [] OTHER -> [success |-> TRUE, available |-> TRUE, errors |-> <<>>]

(***************************************************************************)
(* PHASES 3 to 6                                                           *)
(***************************************************************************)
\* the warnings and passes of validate_against_official_patterns (main drops
\* its errors).  The content heuristics (check_hookify_requirements,
\* check_skill_design_patterns, check_agent_patterns, check_command_skill_usage,
\* check_multistage_workflow_hookify) add the warnings named in env.patterns.
\* validate_against_official_patterns raises AttributeError: "Pattern 3" calls
\* .endswith on every item of the skills, commands and agents lists
patterns_raise(fs, plugin_root) ==
  LET ld == load_json(fs, PJoin(plugin_root, MP_PATH))
      plugins == get(ld.v, "plugins", JL(<<>>))
  IN /\ ld.ok /\ islist(plugins)
     /\ \E i \in 1..Len(plugins.v) :
          \E t \in {"skills", "commands", "agents"} : nonstring_item(plugins.v[i], t)

validate_against_official_patterns(fs, plugin_root, env) ==
  LET ld == load_json(fs, PJoin(plugin_root, MP_PATH))
      data == ld.v
      r1 == IF ~has(data, "metadata")
            THEN add_warning(ValidationResult, Msg("", "Missing metadata object", 0, <<>>), NoFix)
            ELSE IF ~has(get(data, "metadata", JO(EmptyObj)), "description")
            THEN add_warning(ValidationResult, Msg("", "Missing metadata.description", 0, <<>>), NoFix)
            ELSE add_pass(ValidationResult, Msg("", "metadata.description present", 0, <<>>))
      r2 == IF truthy(get(get(data, "owner", JO(EmptyObj)), "name", JNull))
            THEN add_pass(r1, Msg("", "owner.name present", 0, <<>>))
            ELSE r1
      codes == SetToSeq(env.patterns)
  IN IF ~ld.ok THEN ValidationResult
     ELSE merge_all(r2, [i \in 1..Len(codes) |->
                           add_warning(ValidationResult, Msg(codes[i], "pattern", 0, <<>>), NoFix)])

\* variant of validate_deploy_readiness that fails the run when the tree is not a git
\* repository or git is not installed
validate_deploy_readiness_GitRequired(env) ==
  LET r == ValidationResult
  IN CASE env.git = "nogit" -> add_error(r, Msg("", "Not a git repository", 0, <<>>), NoFix)
       [] env.git = "dirty" ->
            add_pass(add_error(add_error(r, Msg("", "[DEPLOY] uncommitted change(s)", 0, <<>>), NoFix),
                               Msg("", "changed file", 0, <<>>), NoFix),
                     Msg("", "Git: up to date with remote", 0, <<>>))
       [] env.git = "ahead" ->
            add_error(add_pass(r, Msg("", "Git: No uncommitted changes", 0, <<>>)),
                      Msg("", "[DEPLOY] unpushed commit(s)", 0, <<>>), NoFix)
       [] env.git = "behind" ->
            add_warning(add_pass(add_pass(r, Msg("", "Git: No uncommitted changes", 0, <<>>)),
                                 Msg("", "Git: up to date with remote", 0, <<>>)),
                        Msg("", "[DEPLOY] Branch is behind remote", 0, <<>>), NoFix)
       [] env.git = "noupstream" ->
            add_warning(add_pass(r, Msg("", "Git: No uncommitted changes", 0, <<>>)),
                        Msg("", "Git: no upstream tracking", 0, <<>>), NoFix)
       [] env.git = "timeout" -> add_warning(r, Msg("", "Git status check timed out", 0, <<>>), NoFix)
       [] env.git = "notfound" -> add_error(r, Msg("", "Git not found", 0, <<>>), NoFix)
       [] OTHER ->
            add_pass(add_pass(r, Msg("", "Git: No uncommitted changes", 0, <<>>)),
                     Msg("", "Git: up to date with remote", 0, <<>>))

\* validate_deploy_readiness; env.git is the class of the git answers
validate_deploy_readiness(env) ==
  LET r == ValidationResult
  IN CASE env.git = "nogit" -> add_warning(r, Msg("", "Not a git repository", 0, <<>>), NoFix)
       [] env.git = "dirty" ->
            add_pass(add_error(add_error(r, Msg("", "[DEPLOY] uncommitted change(s)", 0, <<>>), NoFix),
                               Msg("", "changed file", 0, <<>>), NoFix),
                     Msg("", "Git: up to date with remote", 0, <<>>))
       [] env.git = "ahead" ->
            add_error(add_pass(r, Msg("", "Git: No uncommitted changes", 0, <<>>)),
                      Msg("", "[DEPLOY] unpushed commit(s)", 0, <<>>), NoFix)
       [] env.git = "behind" ->
            add_warning(add_pass(add_pass(r, Msg("", "Git: No uncommitted changes", 0, <<>>)),
                                 Msg("", "Git: up to date with remote", 0, <<>>)),
                        Msg("", "[DEPLOY] Branch is behind remote", 0, <<>>), NoFix)
       [] env.git = "noupstream" ->
            add_warning(add_pass(r, Msg("", "Git: No uncommitted changes", 0, <<>>)),
                        Msg("", "Git: no upstream tracking", 0, <<>>), NoFix)
       [] env.git = "timeout" -> add_warning(r, Msg("", "Git status check timed out", 0, <<>>), NoFix)
       [] env.git = "notfound" -> add_warning(r, Msg("", "Git not found", 0, <<>>), NoFix)
       [] OTHER ->
            add_pass(add_pass(r, Msg("", "Git: No uncommitted changes", 0, <<>>)),
                     Msg("", "Git: up to date with remote", 0, <<>>))

\* the repository every host can reach, whatever it answers for the others
OTHER_REPO == <<"me", "/", "other">>

\* the class of the gh answers for one repository; env.remote is the class of
\* the answers for every repository but OTHER_REPO
gh_api(env, repo) ==
  IF repo = OTHER_REPO /\ env.remote \in {"inaccessible", "incomplete"}
  THEN "accessible" ELSE env.remote

\* the "for component_type in [...]" loop of validate_remote_source_consistency
\* for a repository without any of the directories
RECURSIVE remote_components(_, _, _, _)
remote_components(r, plugin, idx, types) ==
  IF types = <<>> THEN r
  ELSE remote_components(
         IF truthy(get(plugin, Head(types), JL(<<>>)))
         THEN add_error(r, Msg("E020", "repo lacks component directory", idx, <<Head(types)>>), NoFix)
         ELSE r,
         plugin, idx, Tail(types))

\* the body of the plugin loop of validate_remote_source_consistency for a
\* GitHub source with a repo: "inaccessible" is a failing gh api call,
\* "incomplete" a repository whose listing is empty, "gh_missing" a host
\* without gh, "timeout" a gh call that does not answer
remote_plugin(plugin, idx, env) ==
  LET source == get(plugin, "source", JNull)
      r == ValidationResult
      answer == gh_api(env, get(source, "repo", JS(<<>>)).v)
  IN CASE answer = "inaccessible" ->
            add_error(r, Msg("E019", "repo not accessible", idx, <<>>), NoFix)
       [] answer = "incomplete" ->
            remote_components(
              add_warning(r, Msg("", "repo has no .claude-plugin/ or marketplace.json", idx, <<>>), NoFix),
              plugin, idx, <<"commands", "agents", "skills", "hooks">>)
       [] answer = "gh_missing" ->
            add_warning(r, Msg("", "gh CLI not found", idx, <<>>), NoFix)
       [] answer = "timeout" ->
            add_warning(r, Msg("", "Timeout checking repo", idx, <<>>), NoFix)
       [] OTHER -> r

\* the plugin entry is checked against its remote: a GitHub source with a repo
remote_checked(plugin) ==
  LET source == get(plugin, "source", JNull)
  IN /\ isdict(source) /\ get(source, "source", JNull) = JS(GITHUB)
     /\ isstr(get(source, "repo", JS(<<>>))) /\ truthy(get(source, "repo", JS(<<>>)))

\* the "for i, plugin in enumerate(plugins)" loop of
\* validate_remote_source_consistency: a missing gh ends the loop
RECURSIVE remote_loop(_, _, _, _)
remote_loop(r, plugins, i, env) ==
  IF i > Len(plugins) THEN r
  ELSE IF ~remote_checked(plugins[i]) THEN remote_loop(r, plugins, i + 1, env)
  ELSE LET r1 == merge(r, remote_plugin(plugins[i], i, env))
       IN IF gh_api(env, plugins[i].v["source"].v["repo"].v) = "gh_missing" THEN r1
          ELSE remote_loop(r1, plugins, i + 1, env)

validate_remote_source_consistency(fs, marketplace_path, env) ==
  LET ld == load_json(fs, marketplace_path)
      plugins == IF islist(get(ld.v, "plugins", JL(<<>>)))
                 THEN get(ld.v, "plugins", JL(<<>>)).v ELSE <<>>
      r == remote_loop(ValidationResult, plugins, 1, env)
  IN IF ~exists(fs, marketplace_path) \/ ~ld.ok THEN ValidationResult
     ELSE IF r.errors = <<>> /\ r.warnings = <<>>
     THEN add_pass(r, Msg("", "Remote source consistency check passed", 0, <<>>))
     ELSE r

(***************************************************************************)
(* The plugin cache ~/.claude/plugins/cache/<marketplace>/<plugin>/: a set *)
(* of version directories [dir, manifest, ver, locked]; manifest tells      *)
(* whether the directory holds a manifest with a plugin in it ("none": no)  *)
(* and whether its first plugin declares a version, ver is that version,    *)
(* locked tells that shutil.rmtree of the directory raises.                 *)
(***************************************************************************)
\* cached_plugins[0].get("version", cached_version): the declared version,
\* or the name of the directory
cached_ver(d) == IF d.manifest = "versioned" THEN d.ver ELSE d.dir

\* variant of clear_outdated that clears every cached version directory with a
\* manifest, whether or not its version matches
RECURSIVE clear_outdated_All(_, _, _)
clear_outdated_All(st, dirs, local_version) ==
  IF dirs = <<>> THEN st
  ELSE LET d == Head(dirs)
           w == add_warning(st.r, Msg("", "[CACHE] Outdated", 0, d.dir), NoFix)
           st1 == IF d.manifest = "none" THEN st
                  ELSE IF d.locked
                  THEN [cache |-> st.cache,
                        r |-> add_error(w, Msg("", "[CACHE] Failed to clear", 0, d.dir), NoFix)]
                  ELSE [cache |-> st.cache \ {d},
                        r |-> add_pass(w, Msg("", "[CACHE] Cleared", 0, d.dir))]
       IN clear_outdated_All(st1, Tail(dirs), local_version)

\* the body of the "for cache_dir in cached_versions" loop: [cache, r]
RECURSIVE clear_outdated(_, _, _)
clear_outdated(st, dirs, local_version) ==
  IF dirs = <<>> THEN st
  ELSE LET d == Head(dirs)
           outdated == truthy(local_version) /\ JS(cached_ver(d)) # local_version
           st1 == IF d.manifest = "none" THEN st
                  ELSE IF outdated
                  THEN LET w == add_warning(st.r, Msg("", "[CACHE] Outdated", 0, d.dir), NoFix)
                       IN IF d.locked
                          THEN [cache |-> st.cache,
                                r |-> add_error(w, Msg("", "[CACHE] Failed to clear", 0, d.dir), NoFix)]
                          ELSE [cache |-> st.cache \ {d},
                                r |-> add_pass(w, Msg("", "[CACHE] Cleared", 0, d.dir))]
                  ELSE [cache |-> st.cache, r |-> add_pass(st.r, Msg("", "[CACHE] Current", 0, d.dir))]
       IN clear_outdated(st1, Tail(dirs), local_version)

\* check_and_clear_outdated_cache: [cache, r]; cache holds the version
\* directories of the manifest's marketplace and first plugin
check_and_clear_outdated_cache(cache, marketplace_data) ==
  LET plugins == get(marketplace_data, "plugins", JL(<<>>))
      st == [cache |-> cache, r |-> ValidationResult]
  IN IF ~truthy(plugins) \/ ~truthy(get(marketplace_data, "name", JS(<<>>))) THEN st
     ELSE IF ~truthy(get(plugins.v[1], "name", JS(<<>>))) THEN st
     ELSE clear_outdated(st, SetToSeq(cache), get(plugins.v[1], "version", JS(<<>>)))

\* find_marketplace_json: the manifest path, or "none"
find_marketplace_json(fs, start_path) ==
  IF exists(fs, PJoin(start_path, CP)) /\ exists(fs, PJoin(start_path, MP_PATH))
  THEN PJoin(start_path, MP_PATH)
  ELSE IF exists(fs, PJoin(start_path, ROOT_PLUGIN_JSON))
  THEN PJoin(start_path, ROOT_PLUGIN_JSON)
  ELSE <<"none">>

(***************************************************************************)
(* main as a state machine.  One run of main walks pc through its steps;   *)
(* after it exits the tool may be run again on the tree it left.           *)
(***************************************************************************)
VARIABLES
  flags,          \* the command-line switches of this run
  env,            \* the host answers of this run (CLI, git, settings, ...)
  fs,             \* the plugin tree
  cache,          \* the plugin cache version directories
  fs0, cache0,    \* the tree and the cache when this run started
  run,            \* number of this run
  pc,             \* position in main
  marketplace_path,
  data,           \* the manifest as main parsed it
  total_result,
  phases,         \* the checkers this run has called
  reads,          \* the areas this run has read: "manifest", "tree", "host", "cache"
  fix_i,          \* apply_fixes: index of the next Fix
  success, fail,  \* apply_fixes: its two counters
  printed,        \* apply_fixes: the descriptions listed so far
  attempted,      \* apply_fixes: the Fixes whose function was called, in order
  raised,         \* apply_fixes: the indices of the Fixes that raised
  exit_code       \* -1 while main runs

VARIABLES
  cwd,            \* the directory the tools are started in, as characters
  marker,         \* /tmp/skillmaker-validation-passed.marker exists
  state_file,     \* /tmp/skillmaker-test-state.json: "absent", "tested", "untested", "corrupt"
  skip_env,       \* SKILLMAKER_SKIP_TEST_ENFORCEMENT is set
  hook_exit,      \* the last hook that ran, its exit status and its reason
  hook_n          \* number of hook runs so far

hook_vars == <<cwd, marker, state_file, skip_env, hook_exit, hook_n>>

VARIABLES
  home,           \* the user's home directory, with .claude/settings.json
  last_write,     \* who saved the settings last: "none", "register", "unregister"
  reg_out         \* the last registration script that ran and what it reported

reg_vars == <<home, last_write, reg_out>>

vars == <<flags, env, fs, cache, fs0, cache0, run, pc, marketplace_path, data, total_result,
          phases, reads, fix_i, success, fail, printed, attempted, raised, exit_code,
          cwd, marker, state_file, skip_env, hook_exit, hook_n, home, last_write, reg_out>>

\* number of consecutive runs of the tool that are explored
MaxRuns == 2

(***************************************************************************)
(* Trees the runs start from                                               *)
(***************************************************************************)
FOO == <<"foo">>
BAR == <<"bar">>
P(dir, name) == <<dir, "/">> \o name
PMd(dir, name) == <<dir, "/">> \o name \o MD

\* a complete command / agent / SKILL.md file
GoodCommand == Text(<<Dash, NL, KV("description", <<"Does things">>), NL, Dash, NL, Txt, NL>>)
GoodAgent ==
  Text(<<Dash, NL, KV("name", FOO), NL, KV("description", <<"Does things">>), NL,
         KV("tools", TOOLS3), NL, Dash, NL, Txt, NL>>)
GoodSkill ==
  Text(<<Dash, NL, KV("name", FOO), NL, KV("description", <<"Does things">>), NL, Dash, NL, Txt, NL>>)

PluginEntry(commands, agents, skills) ==
  JO([name |-> JS(<<"plug">>), source |-> JS(DOTSLASH), description |-> JS(<<"A plugin">>),
      version |-> JS(<<"1.0.0">>), commands |-> JL(commands), agents |-> JL(agents),
      skills |-> JL(skills)])

Manifest(commands, agents, skills) ==
  JO([name |-> JS(<<"mkt">>),
      owner |-> JO([name |-> JS(<<"me">>)]),
      metadata |-> JO([description |-> JS(<<"A marketplace">>)]),
      plugins |-> JL(<<PluginEntry(commands, agents, skills)>>)])

Tree(manifest, files, dirs) ==
  [files |-> [p \in {MP_PATH} \cup DOMAIN files |-> IF p = MP_PATH THEN manifest ELSE files[p]],
   dirs |-> {CP} \cup dirs,
   xbits |-> {}]

NoFiles == [p \in {} |-> BadJson]
OneFile(p, c) == [q \in {p} |-> c]
TwoFiles(p1, c1, p2, c2) == [q \in {p1, p2} |-> IF q = p1 THEN c1 ELSE c2]

Reg(dir, name) == JS(DOTSLASH \o PMd(dir, name))
RegDir(dir, name) == JS(DOTSLASH \o P(dir, name))

\* a registered command that exists: nothing to report
CleanTree ==
  Tree(Json(Manifest(<<Reg("commands", FOO)>>, <<>>, <<>>)),
       OneFile(PMd("commands", FOO), GoodCommand), {<<"commands">>})

\* a skill registered as "./skills/foo.md" whose file skills/foo.md exists
SkillFileTree ==
  Tree(Json(Manifest(<<>>, <<>>, <<Reg("skills", FOO)>>)),
       OneFile(PMd("skills", FOO), GoodSkill), {<<"skills">>})

\* the same with Windows line ends in the skill file
SkillFileCrlfTree ==
  Tree(Json(Manifest(<<>>, <<>>, <<Reg("skills", FOO)>>)),
       OneFile(PMd("skills", FOO),
               Text(<<Dash, CRLF, KV("name", FOO), CRLF, KV("description", <<"Does things">>), CRLF,
                      Dash, CRLF, Txt, CRLF>>)),
       {<<"skills">>})

\* a command registered without its extension, the file exists
CommandNoExtTree ==
  Tree(Json(Manifest(<<RegDir("commands", FOO)>>, <<>>, <<>>)),
       OneFile(PMd("commands", FOO), GoodCommand), {<<"commands">>})

\* an agent registered without its extension, the file exists
AgentNoExtTree ==
  Tree(Json(Manifest(<<>>, <<RegDir("agents", FOO)>>, <<>>)),
       OneFile(PMd("agents", FOO), GoodAgent), {<<"agents">>})

\* commands/bar.md exists and is not registered
UnregisteredTree ==
  Tree(Json(Manifest(<<Reg("commands", FOO)>>, <<>>, <<>>)),
       TwoFiles(PMd("commands", FOO), GoodCommand, PMd("commands", BAR), GoodCommand),
       {<<"commands">>})

\* a registered command file without frontmatter that starts with blank lines
NoFrontmatterTree ==
  Tree(Json(Manifest(<<Reg("commands", FOO)>>, <<>>, <<>>)),
       OneFile(PMd("commands", FOO), Text(<<NL, NL, Txt, NL>>)), {<<"commands">>})

\* a registered command and no commands directory: an error without a Fix
MissingDirTree == Tree(Json(Manifest(<<Reg("commands", FOO)>>, <<>>, <<>>)), NoFiles, {})

\* a registered skill whose path is a plain file: its stub cannot be created
RUN_PY == <<"scripts", "/", "run", ".", "py">>

\* and a script without shebang, so that Fixes follow the failing one
SkillIsFileTree ==
  Tree(Json(Manifest(<<>>, <<>>, <<RegDir("skills", FOO)>>)),
       TwoFiles(P("skills", FOO), Text(<<Txt, NL>>), RUN_PY, Text(<<Txt, NL>>)),
       {<<"skills">>, <<"scripts">>})

\* a registered skill that does not exist and a registered agent that does not
MissingComponentsTree ==
  Tree(Json(Manifest(<<>>, <<Reg("agents", FOO)>>, <<RegDir("skills", FOO)>>)),
       NoFiles, {<<"skills">>, <<"agents">>})

\* a script without shebang and executable bit, and commands and skills kept
\* inside .claude-plugin/
MisplacedTree ==
  Tree(Json(Manifest(<<>>, <<>>, <<>>)),
       [q \in {RUN_PY, CP \o <<"/">> \o PMd("commands", FOO),
               CP \o <<"/">> \o PMd("skills", FOO), CP_PLUGIN_JSON} |->
          IF q = CP_PLUGIN_JSON
          THEN Json(JO([name |-> JS(<<"plug">>), bogus |-> JS(<<"x">>),
                        repository |-> JO([url |-> JS(<<"https://x">>)])]))
          ELSE IF q = RUN_PY THEN Text(<<Txt, NL>>)
          ELSE GoodCommand],
       {<<"scripts">>, CP \o <<"/", "commands">>, CP \o <<"/", "skills">>})

\* a plugin whose source is the name "github" with the repository beside it
GithubTree ==
  Tree(Json(JO([name |-> JS(<<"mkt">>), owner |-> JO([name |-> JS(<<"me">>)]),
                plugins |-> JL(<<JO([name |-> JS(<<"plug">>), source |-> JS(GITHUB),
                                     repo |-> JS(<<"me", "/", "plug">>),
                                     repository |-> JO([url |-> JS(<<"https://x">>)])])>>)])),
       NoFiles, {})

\* a clean tree whose marketplace name is not kebab-case: a Phase 0 warning
NameWarningTree ==
  Tree(Json(setkey(Manifest(<<Reg("commands", FOO)>>, <<>>, <<>>), "name", JS(<<"My_Plugin">>))),
       OneFile(PMd("commands", FOO), GoodCommand), {<<"commands">>})

\* a manifest with the given plugin entries
ManifestOf(plugins) == setkey(Manifest(<<>>, <<>>, <<>>), "plugins", JL(plugins))

SUB == <<"sub">>
InSub(p) == SUB \o <<"/">> \o p

\* two plugin entries with different roots; commands/bar.md is registered by neither
TwoPluginTree ==
  Tree(Json(ManifestOf(<<PluginEntry(<<Reg("commands", FOO)>>, <<>>, <<>>),
                         setkey(setkey(PluginEntry(<<>>, <<>>, <<>>), "name", JS(<<"other">>)),
                                "source", JS(DOTSLASH \o SUB))>>)),
       TwoFiles(PMd("commands", FOO), GoodCommand, PMd("commands", BAR), GoodCommand),
       {<<"commands">>, SUB})

\* a plugin whose source is a directory name without the "./" prefix
SubSourceTree ==
  Tree(Json(ManifestOf(<<setkey(PluginEntry(<<Reg("commands", FOO)>>, <<>>, <<>>),
                                "source", JS(SUB))>>)),
       OneFile(InSub(PMd("commands", FOO)), GoodCommand), {SUB, InSub(<<"commands">>)})

\* a plugin in a subdirectory that registers a skill as a file
SubSkillFileTree ==
  Tree(Json(ManifestOf(<<setkey(PluginEntry(<<>>, <<>>, <<Reg("skills", FOO)>>),
                                "source", JS(DOTSLASH \o SUB))>>)),
       OneFile(InSub(PMd("skills", FOO)), GoodSkill), {SUB, InSub(<<"skills">>)})

\* a clean tree with a key "bogus" in the manifest root, the owner and the plugin entry
UnknownKeysTree ==
  Tree(Json(setkey(setkey(ManifestOf(<<setkey(PluginEntry(<<Reg("commands", FOO)>>, <<>>, <<>>),
                                              "bogus", JS(<<"x">>))>>),
                          "owner", JO([name |-> JS(<<"me">>), bogus |-> JS(<<"x">>)])),
                   "bogus", JS(<<"x">>))),
       OneFile(PMd("commands", FOO), GoodCommand), {<<"commands">>})

\* a clean tree with a key "bogus" in the metadata and in the author of the plugin entry
MetaAuthorKeysTree ==
  Tree(Json(setkey(ManifestOf(<<setkey(PluginEntry(<<Reg("commands", FOO)>>, <<>>, <<>>), "author",
                                       JO([name |-> JS(<<"me">>), bogus |-> JS(<<"x">>)]))>>),
                   "metadata", JO([description |-> JS(<<"A marketplace">>), bogus |-> JS(<<"x">>)]))),
       OneFile(PMd("commands", FOO), GoodCommand), {<<"commands">>})

\* a plugin entry with the given source and no components
SourceTree(source) ==
  Tree(Json(ManifestOf(<<setkey(PluginEntry(<<>>, <<>>, <<>>), "source", source)>>)), NoFiles, {})

\* source objects with the key "type" and with neither key, and a source that is a list
TypeKeyTree == SourceTree(JO([type |-> JS(GITHUB), repo |-> JS(<<"me", "/", "plug">>)]))
NoKeyTree == SourceTree(JO([repo |-> JS(<<"me", "/", "plug">>)]))
ListSourceTree == SourceTree(JL(<<JS(<<"x">>)>>))

\* a registered command path without the "./" prefix, the file exists
NoPrefixTree ==
  Tree(Json(Manifest(<<JS(PMd("commands", FOO))>>, <<>>, <<>>)),
       OneFile(PMd("commands", FOO), GoodCommand), {<<"commands">>})

\* the clean tree with a manifest that has no "metadata" object (an optional field)
NoMetadataTree ==
  Tree(Json(popkey(Manifest(<<Reg("commands", FOO)>>, <<>>, <<>>), "metadata")),
       OneFile(PMd("commands", FOO), GoodCommand), {<<"commands">>})

\* two plugins served from GitHub repositories; the first declares a command
GithubSource(repo) == JO([source |-> JS(GITHUB), repo |-> JS(repo)])

TwoGithubTree ==
  Tree(Json(ManifestOf(<<setkey(PluginEntry(<<Reg("commands", FOO)>>, <<>>, <<>>),
                                "source", GithubSource(<<"me", "/", "plug">>)),
                         setkey(setkey(PluginEntry(<<>>, <<>>, <<>>), "name", JS(<<"other">>)),
                                "source", GithubSource(OTHER_REPO))>>)),
       NoFiles, {})

\* a skill registered as "./skills/foo.md" whose file exists beside a skill
\* directory skills/foo that already holds another SKILL.md
SkillFileClashTree ==
  Tree(Json(Manifest(<<>>, <<>>, <<Reg("skills", FOO)>>)),
       TwoFiles(PMd("skills", FOO), GoodSkill,
                <<"skills", "/">> \o FOO \o <<"/">> \o SKILL_MD,
                Text(<<Dash, NL, KV("name", FOO), NL, KV("description", <<"Does things">>), NL,
                       Dash, NL, Txt, NL, Txt, NL>>)),
       {<<"skills">>, <<"skills", "/">> \o FOO})

\* a commands list whose only item is null, with and without a commands directory
NullCommandTree ==
  Tree(Json(Manifest(<<JNull>>, <<>>, <<>>)),
       OneFile(PMd("commands", FOO), GoodCommand), {<<"commands">>})

NullCommandNoDirTree == Tree(Json(Manifest(<<JNull>>, <<>>, <<>>)), NoFiles, {})

\* no manifest at all, and a manifest that is not JSON
NoManifestTree == [files |-> NoFiles, dirs |-> {CP}, xbits |-> {}]
BadManifestTree == Tree(BadJson, NoFiles, {})

Trees ==
  {CleanTree, SkillFileTree, SkillFileCrlfTree, CommandNoExtTree, AgentNoExtTree,
   UnregisteredTree, NoFrontmatterTree, MissingDirTree, SkillIsFileTree,
   MissingComponentsTree, MisplacedTree, GithubTree, NameWarningTree, TwoPluginTree,
   SubSourceTree, SubSkillFileTree, UnknownKeysTree, MetaAuthorKeysTree, TypeKeyTree,
   NoKeyTree, ListSourceTree, NoPrefixTree, NoMetadataTree, TwoGithubTree,
   SkillFileClashTree, NullCommandTree, NullCommandNoDirTree,
   NoManifestTree, BadManifestTree}

(***************************************************************************)
(* Hosts and command lines the runs start from                             *)
(***************************************************************************)
Host(cli, settings, known, yaml, git, remote, patterns) ==
  [cli |-> cli, settings |-> settings, known_marketplaces |-> known, yaml |-> yaml,
   git |-> git, remote |-> remote, patterns |-> patterns]

Hosts ==
  {Host("pass", "clean", "absent", FALSE, "clean", "accessible", {}),
   Host("notfound", "clean", "consistent", FALSE, "nogit", "gh_missing", {"W028"}),
   Host("fail", "error", "mismatch", FALSE, "dirty", "inaccessible", {}),
   Host("timeout", "warning", "absent", TRUE, "behind", "timeout", {}),
   Host("skipped", "clean", "absent", TRUE, "ahead", "incomplete", {"W029", "W033"}),
   Host("notfound", "clean", "absent", FALSE, "notfound", "gh_missing", {})}

CacheDir(dir, ver, locked) ==
  [dir |-> dir, manifest |-> IF ver = <<>> THEN "none" ELSE "versioned", ver |-> ver,
   locked |-> locked]

\* a cached directory whose manifest declares no version for its first plugin
UnversionedDir(dir, locked) == [dir |-> dir, manifest |-> "unversioned", ver |-> <<>>, locked |-> locked]

\* the local version of every manifest above is 1.0.0
Caches ==
  {{},
   {CacheDir(<<"1.0.0">>, <<"1.0.0">>, FALSE)},
   {CacheDir(<<"0.9.0">>, <<"0.9.0">>, FALSE), CacheDir(<<"1.0.0">>, <<"1.0.0">>, FALSE)},
   {CacheDir(<<"0.9.0">>, <<"0.9.0">>, TRUE), CacheDir(<<"abc123">>, <<>>, FALSE),
    UnversionedDir(<<"def456">>, FALSE)}}

Flags(S) ==
  [fix |-> "--fix" \in S, dry_run |-> "--dry-run" \in S, schema_only |-> "--schema-only" \in S,
   quiet |-> "--quiet" \in S, skip_git |-> "--skip-git" \in S, json |-> "--json" \in S,
   pre_edit |-> "--pre-edit" \in S]

CommandLines ==
  { Flags(S) : S \in {{}, {"--fix"}, {"--fix", "--dry-run"}, {"--dry-run"}, {"--schema-only"},
                       {"--schema-only", "--fix"}, {"--quiet"}, {"--skip-git", "--json"},
                       {"--fix", "--quiet"}, {"--fix", "--skip-git"}, {"--pre-edit"}} }

\* the state main starts a run in
StartRun(f, e, tree, c, n) ==
  /\ flags = f /\ env = e /\ fs = tree /\ cache = c /\ fs0 = tree /\ cache0 = c /\ run = n
  /\ pc = "find_manifest" /\ marketplace_path = <<"none">> /\ data = JNull
  /\ total_result = ValidationResult /\ phases = {} /\ reads = {}
  /\ fix_i = 1 /\ success = 0 /\ fail = 0 /\ printed = <<>> /\ attempted = <<>> /\ raised = {}
  /\ exit_code = -1

\* no hook has run
NoHook == [hook |-> "none", code |-> 0, reason |-> ""]

PLUG_DIR == <<"/", "w", "/", "p", "l", "u", "g">>

\* an empty home directory
NoHome == [files |-> NoFiles, dirs |-> {}, xbits |-> {}]

\* no registration script has run
NoReg == [op |-> "none", code |-> 0, is_registered |-> FALSE, is_enabled |-> FALSE,
          after |-> "none"]

RegIdle == home = NoHome /\ last_write = "none" /\ reg_out = NoReg

\* the validator alone: no hook runs, no marker, no state file
Init ==
  /\ \E f \in CommandLines, e \in Hosts, tree \in Trees, c \in Caches : StartRun(f, e, tree, c, 1)
  /\ cwd = PLUG_DIR /\ marker = FALSE /\ state_file = "absent" /\ skip_env = FALSE
  /\ hook_exit = NoHook /\ hook_n = 0
  /\ RegIdle

plugin_root == <<>>

\* sys.exit(code)
Exit(code) == exit_code' = code /\ pc' = "done"

\* "marketplace_path = find_marketplace_json(plugin_root)" and the exit when none
FindManifest ==
  /\ pc = "find_manifest"
  /\ UNCHANGED <<hook_vars, reg_vars>>
  /\ marketplace_path' = find_marketplace_json(fs, plugin_root)
  /\ reads' = reads \cup {"manifest"}
  /\ IF marketplace_path' = <<"none">> THEN Exit(1)
     ELSE pc' = "parse_manifest" /\ UNCHANGED exit_code
  /\ UNCHANGED <<flags, env, fs, cache, fs0, cache0, run, data, total_result, phases,
                 fix_i, success, fail, printed, attempted, raised>>

\* variant of ParseManifest that goes on to Phase 0 when the manifest does not parse
ParseManifest_Continues ==
  /\ pc = "parse_manifest"
  /\ UNCHANGED <<hook_vars, reg_vars>>
  /\ reads' = reads \cup {"manifest"}
  /\ IF load_json(fs, marketplace_path).ok
     THEN data' = load_json(fs, marketplace_path).v
     ELSE data' = JO(EmptyObj)
  /\ pc' = "phase0" /\ UNCHANGED exit_code
  /\ UNCHANGED <<flags, env, fs, cache, fs0, cache0, run, marketplace_path, total_result, phases,
                 fix_i, success, fail, printed, attempted, raised>>

\* "data = json.loads(marketplace_path.read_text())" and the exit on JSONDecodeError
ParseManifest ==
  /\ pc = "parse_manifest"
  /\ UNCHANGED <<hook_vars, reg_vars>>
  /\ reads' = reads \cup {"manifest"}
  /\ IF load_json(fs, marketplace_path).ok
     THEN data' = load_json(fs, marketplace_path).v /\ pc' = "phase0" /\ UNCHANGED exit_code
     ELSE UNCHANGED data /\ Exit(1)
  /\ UNCHANGED <<flags, env, fs, cache, fs0, cache0, run, marketplace_path, total_result, phases,
                 fix_i, success, fail, printed, attempted, raised>>

\* variant of Phase0 without the --schema-only fast path
Phase0_NoFastPath ==
  /\ pc = "phase0"
  /\ UNCHANGED <<hook_vars, reg_vars>>
  /\ total_result' = merge(total_result, validate_schema_static(fs, marketplace_path))
  /\ phases' = phases \cup {"phase0"}
  /\ reads' = reads \cup {"manifest"}
  /\ pc' = "phase1" /\ UNCHANGED exit_code
  /\ UNCHANGED <<flags, env, fs, cache, fs0, cache0, run, marketplace_path, data,
                 fix_i, success, fail, printed, attempted, raised>>

\* Phase 0 and the --schema-only fast path
Phase0 ==
  /\ pc = "phase0"
  /\ UNCHANGED <<hook_vars, reg_vars>>
  /\ total_result' = merge(total_result, validate_schema_static(fs, marketplace_path))
  /\ phases' = phases \cup {"phase0"}
  /\ reads' = reads \cup {"manifest"}
  /\ IF flags.schema_only
     THEN Exit(IF total_result'.errors # <<>> THEN 1 ELSE 0)
     ELSE pc' = "phase1" /\ UNCHANGED exit_code
  /\ UNCHANGED <<flags, env, fs, cache, fs0, cache0, run, marketplace_path, data,
                 fix_i, success, fail, printed, attempted, raised>>

\* the "for error in cli_errors" loop of main: no message is added twice
RECURSIVE add_cli_errors(_, _)
add_cli_errors(r, errors) ==
  IF errors = <<>> THEN r
  ELSE LET m == Msg("", "CLI: " \o Head(errors), 0, <<>>)
       IN add_cli_errors(IF \E i \in 1..Len(r.errors) : r.errors[i] = Issue(m, NoFix)
                         THEN r ELSE add_error(r, m, NoFix),
                         Tail(errors))

\* Phase 1: the CLI check, skipped under --quiet
Phase1 ==
  /\ pc = "phase1"
  /\ UNCHANGED <<hook_vars, reg_vars>>
  /\ LET cli == run_claude_cli_validation(env)
     IN IF flags.quiet THEN UNCHANGED <<total_result, phases, reads>>
        ELSE /\ phases' = phases \cup {"phase1"}
             /\ reads' = reads \cup {"tree"}
             /\ total_result' =
                  IF cli.available
                  THEN IF cli.success
                       THEN add_pass(total_result, Msg("", "CLI validation: passed", 0, <<>>))
                       ELSE add_cli_errors(total_result, cli.errors)
                  ELSE add_warning(total_result, Msg("", "Claude CLI not installed", 0, <<>>), NoFix)
  /\ pc' = "phase2"
  /\ UNCHANGED <<flags, env, fs, cache, fs0, cache0, run, marketplace_path, data,
                 fix_i, success, fail, printed, attempted, raised, exit_code>>

\* the body of the "for i, plugin in enumerate(plugins)" loop of main
phase2_plugin(tree, plugin, yaml) ==
  LET effective_root == main_effective_root(plugin_root, get(plugin, "source", JS(DOTSLASH)))
  IN merge_all(ValidationResult,
               <<validate_registration(tree, effective_root, plugin, marketplace_path),
                 validate_frontmatter_fields(tree, effective_root, yaml),
                 validate_scripts(tree, effective_root)>>)

\* everything Phase 2 merges into total_result, in the order main calls it
phase2_result(tree, e) ==
  LET plugins == plugins_of(data).v
  IN merge_all(ValidationResult,
       <<validate_component_locations(tree, plugin_root, marketplace_path),
         validate_path_resolution_consistency(tree, plugin_root, marketplace_path),
         validate_github_source_with_local_files(tree, plugin_root, marketplace_path),
         validate_settings_json(e),
         validate_marketplace_cache_consistency(e)>>
       \o [i \in 1..Len(plugins) |-> phase2_plugin(tree, plugins[i], e.yaml)]
       \o <<validate_plugin_json(tree, plugin_root), validate_hooks_json(tree, plugin_root)>>)

\* an exception no handler catches ends main: the interpreter prints the
\* traceback and exits with status 1
Crash == exit_code' = 1 /\ pc' = "crashed"

\* the plugin loop of Phase 2 reaches a validate_registration call that raises
phase2_raises(tree) ==
  LET plugins == plugins_of(data).v
  IN \E i \in 1..Len(plugins) :
       registration_raises(
         tree, main_effective_root(plugin_root, get(plugins[i], "source", JS(DOTSLASH))),
         plugins[i])

Phase2 ==
  /\ pc = "phase2"
  /\ UNCHANGED <<hook_vars, reg_vars>>
  /\ phases' = phases \cup {"phase2"}
  /\ reads' = reads \cup {"manifest", "tree", "host"}
  /\ IF phase2_raises(fs)
     THEN Crash /\ UNCHANGED total_result
     ELSE /\ total_result' = merge(total_result, phase2_result(fs, env))
          /\ pc' = "phase3" /\ UNCHANGED exit_code
  /\ UNCHANGED <<flags, env, fs, cache, fs0, cache0, run, marketplace_path, data,
                 fix_i, success, fail, printed, attempted, raised>>

\* Phase 3: only the warnings and passes of the pattern checks are kept
Phase3 ==
  /\ pc = "phase3"
  /\ UNCHANGED <<hook_vars, reg_vars>>
  /\ phases' = phases \cup {"phase3"}
  /\ reads' = reads \cup {"manifest", "tree"}
  /\ IF patterns_raise(fs, plugin_root)
     THEN Crash /\ UNCHANGED total_result
     ELSE /\ LET pattern_result == validate_against_official_patterns(fs, plugin_root, env)
             IN total_result' = [total_result EXCEPT !.warnings = @ \o pattern_result.warnings,
                                                     !.passed = @ \o pattern_result.passed]
          /\ pc' = "phase4" /\ UNCHANGED exit_code
  /\ UNCHANGED <<flags, env, fs, cache, fs0, cache0, run, marketplace_path, data,
                 fix_i, success, fail, printed, attempted, raised>>

\* Phase 4: deploy readiness, skipped under --skip-git
Phase4 ==
  /\ pc = "phase4"
  /\ UNCHANGED <<hook_vars, reg_vars>>
  /\ IF flags.skip_git THEN UNCHANGED <<total_result, phases, reads>>
     ELSE /\ total_result' = merge(total_result, validate_deploy_readiness(env))
          /\ phases' = phases \cup {"phase4"}
          /\ reads' = reads \cup {"tree", "host"}
  /\ pc' = "phase5"
  /\ UNCHANGED <<flags, env, fs, cache, fs0, cache0, run, marketplace_path, data,
                 fix_i, success, fail, printed, attempted, raised, exit_code>>

Phase5 ==
  /\ pc = "phase5"
  /\ UNCHANGED <<hook_vars, reg_vars>>
  /\ total_result' = merge(total_result,
                           validate_remote_source_consistency(fs, marketplace_path, env))
  /\ phases' = phases \cup {"phase5"}
  /\ reads' = reads \cup {"manifest", "host"}
  /\ pc' = "phase6"
  /\ UNCHANGED <<flags, env, fs, cache, fs0, cache0, run, marketplace_path, data,
                 fix_i, success, fail, printed, attempted, raised, exit_code>>

\* Phase 6: outdated cache directories are removed, then the report is printed
\* variant of Phase6 that clears the cache only when fixes are to be applied
Phase6_OnlyWhenFix ==
  /\ pc = "phase6"
  /\ UNCHANGED <<hook_vars, reg_vars>>
  /\ LET st == check_and_clear_outdated_cache(cache, data)
     IN /\ cache' = IF flags.fix /\ ~flags.dry_run THEN st.cache ELSE cache
        /\ total_result' = merge(total_result, st.r)
  /\ phases' = phases \cup {"phase6"}
  /\ reads' = reads \cup {"cache"}
  /\ pc' = IF flags.fix /\ total_result'.fixes # <<>> THEN "apply_fixes" ELSE "exit"
  /\ UNCHANGED <<flags, env, fs, fs0, cache0, run, marketplace_path, data,
                 fix_i, success, fail, printed, attempted, raised, exit_code>>

Phase6 ==
  /\ pc = "phase6"
  /\ UNCHANGED <<hook_vars, reg_vars>>
  /\ LET st == check_and_clear_outdated_cache(cache, data)
     IN /\ cache' = st.cache
        /\ total_result' = merge(total_result, st.r)
  /\ phases' = phases \cup {"phase6"}
  /\ reads' = reads \cup {"cache"}
  /\ pc' = IF flags.fix /\ total_result'.fixes # <<>> THEN "apply_fixes" ELSE "exit"
  /\ UNCHANGED <<flags, env, fs, fs0, cache0, run, marketplace_path, data,
                 fix_i, success, fail, printed, attempted, raised, exit_code>>

\* variant of ApplyFix that leaves the loop at the first Fix that raises
ApplyFix_StopsAtFailure ==
  /\ pc = "apply_fixes"
  /\ UNCHANGED <<hook_vars, reg_vars>>
  /\ fix_i <= Len(total_result.fixes)
  /\ LET fix == total_result.fixes[fix_i]
         r == Fix_apply(fs, fix)
     IN /\ printed' = Append(printed, fix.description)
        /\ IF flags.dry_run
           THEN /\ success' = success + 1
                /\ fix_i' = fix_i + 1
                /\ UNCHANGED <<fs, fail, attempted, raised>>
           ELSE /\ fs' = r.fs
                /\ attempted' = Append(attempted, fix)
                /\ success' = IF r.ok THEN success + 1 ELSE success
                /\ fail' = IF r.ok THEN fail ELSE fail + 1
                /\ raised' = IF r.ok THEN raised ELSE raised \cup {fix_i}
                /\ fix_i' = IF r.ok THEN fix_i + 1 ELSE Len(total_result.fixes) + 1
  /\ UNCHANGED <<flags, env, cache, fs0, cache0, run, pc, marketplace_path, data, total_result,
                 phases, reads, exit_code>>

\* variant of ApplyFix that calls the fix function in dry-run mode too
ApplyFix_DryRunCalls ==
  /\ pc = "apply_fixes"
  /\ UNCHANGED <<hook_vars, reg_vars>>
  /\ fix_i <= Len(total_result.fixes)
  /\ LET fix == total_result.fixes[fix_i]
         r == Fix_apply(fs, fix)
     IN /\ printed' = Append(printed, fix.description)
        /\ fs' = r.fs
        /\ IF flags.dry_run
           THEN /\ success' = success + 1
                /\ UNCHANGED <<fail, attempted, raised>>
           ELSE /\ attempted' = Append(attempted, fix)
                /\ success' = IF r.ok THEN success + 1 ELSE success
                /\ fail' = IF r.ok THEN fail ELSE fail + 1
                /\ raised' = IF r.ok THEN raised ELSE raised \cup {fix_i}
  /\ fix_i' = fix_i + 1
  /\ UNCHANGED <<flags, env, cache, fs0, cache0, run, pc, marketplace_path, data, total_result,
                 phases, reads, exit_code>>

\* one iteration of the "for fix in fixes" loop of apply_fixes(fixes, dry_run)
ApplyFix ==
  /\ pc = "apply_fixes"
  /\ UNCHANGED <<hook_vars, reg_vars>>
  /\ fix_i <= Len(total_result.fixes)
  /\ LET fix == total_result.fixes[fix_i]
         r == Fix_apply(fs, fix)
     IN /\ printed' = Append(printed, fix.description)
        /\ IF flags.dry_run
           THEN /\ success' = success + 1
                /\ UNCHANGED <<fs, fail, attempted, raised>>
           ELSE /\ fs' = r.fs
                /\ attempted' = Append(attempted, fix)
                /\ success' = IF r.ok THEN success + 1 ELSE success
                /\ fail' = IF r.ok THEN fail ELSE fail + 1
                /\ raised' = IF r.ok THEN raised ELSE raised \cup {fix_i}
  /\ fix_i' = fix_i + 1
  /\ UNCHANGED <<flags, env, cache, fs0, cache0, run, pc, marketplace_path, data, total_result,
                 phases, reads, exit_code>>

\* apply_fixes returns (success, fail)
FixesDone ==
  /\ pc = "apply_fixes"
  /\ UNCHANGED <<hook_vars, reg_vars>>
  /\ fix_i > Len(total_result.fixes)
  /\ pc' = "exit"
  /\ UNCHANGED <<flags, env, fs, cache, fs0, cache0, run, marketplace_path, data, total_result,
                 phases, reads, fix_i, success, fail, printed, attempted, raised, exit_code>>

\* variant of ExitCode that looks at the warnings before the errors
ExitCode_WarningsFirst ==
  /\ pc = "exit"
  /\ UNCHANGED <<hook_vars, reg_vars>>
  /\ IF total_result.warnings # <<>> THEN Exit(2)
     ELSE IF total_result.errors # <<>> /\ ~(flags.fix /\ ~flags.dry_run) THEN Exit(1)
     ELSE Exit(0)
  /\ UNCHANGED <<flags, env, fs, cache, fs0, cache0, run, marketplace_path, data, total_result,
                 phases, reads, fix_i, success, fail, printed, attempted, raised>>

\* the exit code at the end of main
ExitCode ==
  /\ pc = "exit"
  /\ UNCHANGED <<hook_vars, reg_vars>>
  /\ IF total_result.errors # <<>> /\ ~(flags.fix /\ ~flags.dry_run) THEN Exit(1)
     ELSE IF total_result.warnings # <<>> THEN Exit(2)
     ELSE Exit(0)
  /\ UNCHANGED <<flags, env, fs, cache, fs0, cache0, run, marketplace_path, data, total_result,
                 phases, reads, fix_i, success, fail, printed, attempted, raised>>

\* the tool is started again on the tree and the cache the last run left
Rerun ==
  /\ pc = "done"
  /\ UNCHANGED <<hook_vars, reg_vars>>
  /\ run < MaxRuns
  /\ \E f \in {flags, Flags({})} : flags' = f
  /\ fs0' = fs /\ cache0' = cache /\ run' = run + 1
  /\ pc' = "find_manifest" /\ marketplace_path' = <<"none">> /\ data' = JNull
  /\ total_result' = ValidationResult /\ phases' = {} /\ reads' = {}
  /\ fix_i' = 1 /\ success' = 0 /\ fail' = 0 /\ printed' = <<>> /\ attempted' = <<>>
  /\ raised' = {} /\ exit_code' = -1
  /\ UNCHANGED <<env, fs, cache>>

Next ==
  \/ FindManifest \/ ParseManifest \/ Phase0 \/ Phase1 \/ Phase2 \/ Phase3 \/ Phase4 \/ Phase5
  \/ Phase6 \/ ApplyFix \/ FixesDone \/ ExitCode \/ Rerun

Spec == Init /\ [][Next]_vars

(***************************************************************************)
(* What main writes to standard output                                     *)
(***************************************************************************)
\* the variables of the validator
main_vars == <<flags, env, fs, cache, fs0, cache0, run, pc, marketplace_path, data, total_result,
               phases, reads, fix_i, success, fail, printed, attempted, raised, exit_code>>

UPPER == <<"A", "B", "C", "D", "E", "F", "G", "H", "I", "J", "K", "L", "M", "N", "O", "P", "Q", "R",
    "S", "T", "U", "V", "W", "X", "Y", "Z">>

LOWER == <<"a", "b", "c", "d", "e", "f", "g", "h", "i", "j", "k", "l", "m", "n", "o", "p", "q", "r",
    "s", "t", "u", "v", "w", "x", "y", "z">>

\* str.lower(): a symbol that is not one upper-case letter stays as it is
LowerOf == [c \in {UPPER[k] : k \in 1..26} |-> LOWER[CHOOSE k \in 1..26 : UPPER[k] = c]]

lower_char(c) == IF c \in DOMAIN LowerOf THEN LowerOf[c] ELSE c

lower(s) == [i \in 1..Len(s) |-> lower_char(s[i])]

\* "needle in s"
contains(s, needle) ==
  \E i \in 1..(Len(s) - Len(needle) + 1) : \A j \in 1..Len(needle) : s[i + j - 1] = needle[j]

\* print(s)
print(s) == s \o <<"\n">>

\* "=" * 60
RULE == [i \in 1..60 |-> "="]

\* print(f"{prefix}{e}") for every issue; the text of an issue is one symbol
RECURSIVE print_issues(_, _)
print_issues(prefix, issues) ==
  IF issues = <<>> THEN <<>>
  ELSE print(prefix \o <<Head(issues).kind>>) \o print_issues(prefix, Tail(issues))

\* the items of a JSON list of issues, as json.dumps writes them
RECURSIVE dumps_issues(_)
dumps_issues(issues) ==
  IF issues = <<>> THEN <<>>
  ELSE <<"\"", Head(issues).kind, "\"">> \o
       (IF Len(issues) > 1 THEN <<",", " ">> ELSE <<>>) \o dumps_issues(Tail(issues))

\* a JSON number
JN(n) == [t |-> "num", n |-> n]

\* the issues as a JSON list of strings
RECURSIVE json_issues(_)
json_issues(issues) ==
  IF issues = <<>> THEN <<>> ELSE <<JS(<<Head(issues).kind>>)>> \o json_issues(Tail(issues))

\* standard output: its characters, and the document json.loads makes of them
NotJson == [ok |-> FALSE, v |-> JO(EmptyObj)]
Out(text) == [json |-> NotJson, text |-> text]
OutJson(doc, text) == [json |-> [ok |-> TRUE, v |-> doc], text |-> text]

\* {"status": "error", "message": ...} of the two fatal exits
error_report(message) ==
  OutJson(JO([status |-> JS(<<"e", "r", "r", "o", "r">>), message |-> JS(message)]),
          print(<<"{", "\"", "s", "t", "a", "t", "u", "s", "\"", ":", " ", "\"", "e", "r", "r", "o", "r",
    "\"", ",", " ", "\"", "m", "e", "s", "s", "a", "g", "e", "\"", ":", " ", "\"">> \o message \o <<"\"", "}">>))

\* the exit of main when no manifest is found
out_not_found(f) ==
  IF f.json THEN error_report(<<"N", "o", " ", "m", "a", "r", "k", "e", "t", "p", "l", "a", "c", "e", ".", "j", "s", "o",
    "n", " ", "f", "o", "u", "n", "d">>)
  ELSE Out(print(<<"E", "R", "R", "O", "R", ":", " ", "N", "o", " ", ".", "c", "l", "a", "u", "d", "e", "-",
    "p", "l", "u", "g", "i", "n", "/", "m", "a", "r", "k", "e", "t", "p", "l", "a", "c",
    "e", ".", "j", "s", "o", "n", " ", "o", "r", " ", "p", "l", "u", "g", "i", "n", ".",
    "j", "s", "o", "n", " ", "f", "o", "u", "n", "d">>))

\* the exit of main when the manifest is not JSON; the decoder's message is one symbol
out_invalid_json(f, root, path) ==
  IF f.json THEN error_report(<<"I", "n", "v", "a", "l", "i", "d", " ", "J", "S", "O", "N", ":", " ">> \o <<"Expecting value">>)
  ELSE Out(print(<<"E", "R", "R", "O", "R", ":", " ", "I", "n", "v", "a", "l", "i", "d", " ", "J", "S", "O",
    "N", " ", "i", "n", " ">> \o root \o <<"/">> \o path \o
                 <<":", " ">> \o <<"Expecting value">>))

\* the banner after Phase 0
schema_banner(f, schema_result) ==
  IF schema_result.errors # <<>> /\ ~f.json /\ ~f.quiet
  THEN print(RULE) \o print(<<"S", "C", "H", "E", "M", "A", " ", "V", "A", "L", "I", "D", "A", "T", "I", "O", "N", " ",
    "F", "A", "I", "L", "E", "D">>) \o print(RULE) \o
       print(<<"F", "o", "u", "n", "d", " ">> \o <<ToString(Len(schema_result.errors))>> \o
             <<" ", "s", "c", "h", "e", "m", "a", " ", "e", "r", "r", "o", "r", "(", "s", ")", ":">>) \o
       print_issues(<<" ", " ">>, schema_result.errors) \o print(<<>>) \o
       (IF schema_result.fixes # <<>>
        THEN print(<<"[", "-", "-", "f", "i", "x", "]", " ">> \o <<ToString(Len(schema_result.fixes))>> \o
                   <<" ", "e", "r", "r", "o", "r", "s", " ", "c", "a", "n", " ", "b", "e", " ", "a", "u", "t",
    "o", "-", "f", "i", "x", "e", "d">>)
        ELSE <<>>) \o
       print(RULE) \o print(<<>>)
  ELSE <<>>

\* the report of the --schema-only fast path
out_schema_only(f, r) ==
  IF f.json
  THEN OutJson(
         JO([status |-> JS(IF r.errors # <<>> THEN <<"f", "a", "i", "l">> ELSE <<"p", "a", "s", "s">>),
             errors |-> JL(json_issues(r.errors)), warnings |-> JL(json_issues(r.warnings)),
             passed |-> JN(Len(r.passed)), mode |-> JS(<<"s", "c", "h", "e", "m", "a", "-", "o", "n", "l", "y">>)]),
         print(<<"{", "\n", " ", " ", "\"", "s", "t", "a", "t", "u", "s", "\"", ":", " ", "\"">> \o
               (IF r.errors # <<>> THEN <<"f", "a", "i", "l">> ELSE <<"p", "a", "s", "s">>) \o
               <<"\"", ",", "\n", " ", " ", "\"", "e", "r", "r", "o", "r", "s", "\"", ":", " ", "[">> \o dumps_issues(r.errors) \o
               <<"]", ",", "\n", " ", " ", "\"", "w", "a", "r", "n", "i", "n", "g", "s", "\"", ":", " ",
    "[">> \o dumps_issues(r.warnings) \o
               <<"]", ",", "\n", " ", " ", "\"", "p", "a", "s", "s", "e", "d", "\"", ":", " ">> \o <<ToString(Len(r.passed))>> \o
               <<",", "\n", " ", " ", "\"", "m", "o", "d", "e", "\"", ":", " ", "\"", "s", "c", "h", "e",
    "m", "a", "-", "o", "n", "l", "y", "\"", "\n", "}">>))
  ELSE IF ~f.quiet
  THEN IF r.errors # <<>>
       THEN Out(print(<<"[", "S", "C", "H", "E", "M", "A", "]", " ", "F", "A", "I", "L", ":", " ">> \o <<ToString(Len(r.errors))>> \o
                      <<" ", "e", "r", "r", "o", "r", "(", "s", ")">>) \o
                print_issues(<<" ", " ">>, r.errors))
       ELSE Out(print(<<"[", "S", "C", "H", "E", "M", "A", "]", " ", "P", "A", "S", "S">>))
  ELSE Out(<<>>)

\* the banner after Phase 4
deploy_banner(f, deploy_result) ==
  IF ~f.skip_git /\ deploy_result.errors # <<>> /\ ~f.json /\ ~f.quiet
  THEN print(<<>>) \o print(RULE) \o print(<<"D", "E", "P", "L", "O", "Y", " ", "R", "E", "A", "D", "I", "N", "E", "S", "S", " ", "C",
    "H", "E", "C", "K", " ", "F", "A", "I", "L", "E", "D">>) \o
       print(RULE) \o
       print(<<"T", "h", "e", " ", "f", "o", "l", "l", "o", "w", "i", "n", "g", " ", "i", "s", "s", "u",
    "e", "s", " ", "w", "i", "l", "l", " ", "c", "a", "u", "s", "e", " ", "d", "e", "p",
    "l", "o", "y", "e", "d", " ", "v", "e", "r", "s", "i", "o", "n", " ", "t", "o", " ",
    "d", "i", "f", "f", "e", "r", " ", "f", "r", "o", "m", " ", "l", "o", "c", "a", "l", ":">>) \o
       print_issues(<<" ", " ">>, deploy_result.errors) \o print(<<>>) \o
       print(<<"F", "i", "x", " ", "t", "h", "e", "s", "e", " ", "i", "s", "s", "u", "e", "s", " ", "b",
    "e", "f", "o", "r", "e", " ", "d", "e", "p", "l", "o", "y", "i", "n", "g", ":">>) \o
       print(<<" ", " ", "1", ".", " ", "g", "i", "t", " ", "a", "d", "d", " ", "-", "A", " ", "&", "&",
    " ", "g", "i", "t", " ", "c", "o", "m", "m", "i", "t", " ", "-", "m", " ", "'", "y",
    "o", "u", "r", " ", "m", "e", "s", "s", "a", "g", "e", "'">>) \o
       print(<<" ", " ", "2", ".", " ", "g", "i", "t", " ", "p", "u", "s", "h", " ", "o", "r", "i", "g",
    "i", "n", " ", "<", "b", "r", "a", "n", "c", "h", ">">>) \o print(RULE)
  ELSE <<>>

status_of(r) ==
  IF r.errors # <<>> THEN <<"f", "a", "i", "l">>
  ELSE IF r.warnings # <<>> THEN <<"w", "a", "r", "n">> ELSE <<"p", "a", "s", "s">>

\* the report at the end of main: the JSON document
json_report(r) ==
  JO([status |-> JS(status_of(r)), errors |-> JL(json_issues(r.errors)),
      warnings |-> JL(json_issues(r.warnings)), passed |-> JN(Len(r.passed)),
      fixable |-> JN(Len(r.fixes))])

\* the report at the end of main: its characters
report_text(f, r, root) ==
  IF f.json
  THEN print(<<"{", "\n", " ", " ", "\"", "s", "t", "a", "t", "u", "s", "\"", ":", " ", "\"">> \o status_of(r) \o
             <<"\"", ",", "\n", " ", " ", "\"", "e", "r", "r", "o", "r", "s", "\"", ":", " ", "[">> \o dumps_issues(r.errors) \o
             <<"]", ",", "\n", " ", " ", "\"", "w", "a", "r", "n", "i", "n", "g", "s", "\"", ":", " ",
    "[">> \o dumps_issues(r.warnings) \o
             <<"]", ",", "\n", " ", " ", "\"", "p", "a", "s", "s", "e", "d", "\"", ":", " ">> \o <<ToString(Len(r.passed))>> \o
             <<",", "\n", " ", " ", "\"", "f", "i", "x", "a", "b", "l", "e", "\"", ":", " ">> \o <<ToString(Len(r.fixes))>> \o <<"\n", "}">>)
  ELSE IF f.quiet
  THEN IF r.errors # <<>>
       THEN print_issues(<<"[", "E", "R", "R", "O", "R", "]", " ">>, r.errors) \o
            print(<<"F", "A", "I", "L", ":", " ">> \o <<ToString(Len(r.errors))>> \o <<" ", "e", "r", "r", "o", "r", "(", "s", ")">>)
       ELSE <<>>
  ELSE print(RULE) \o print(<<"P", "L", "U", "G", "I", "N", " ", "V", "A", "L", "I", "D", "A", "T", "I", "O", "N">>) \o print(RULE) \o
       print(<<"P", "l", "u", "g", "i", "n", ":", " ">> \o root) \o print(<<>>) \o
       (IF r.errors # <<>>
        THEN print(<<"E", "R", "R", "O", "R", "S", ":">>) \o print_issues(<<" ", " ", "[", "E", "R", "R", "O", "R", "]", " ">>, r.errors) \o
             print(<<>>)
        ELSE <<>>) \o
       (IF r.warnings # <<>>
        THEN print(<<"W", "A", "R", "N", "I", "N", "G", "S", ":">>) \o print_issues(<<" ", " ", "[", "W", "A", "R", "N", "]", " ", " ">>, r.warnings) \o
             print(<<>>)
        ELSE <<>>) \o
       print(<<"S", "U", "M", "M", "A", "R", "Y", ":">>) \o
       print(<<" ", " ", "E", "r", "r", "o", "r", "s", ":", " ", " ", " ">> \o <<ToString(Len(r.errors))>>) \o
       print(<<" ", " ", "W", "a", "r", "n", "i", "n", "g", "s", ":", " ">> \o <<ToString(Len(r.warnings))>>) \o
       print(<<" ", " ", "P", "a", "s", "s", "e", "d", ":", " ", " ", " ">> \o <<ToString(Len(r.passed))>>) \o
       print(<<" ", " ", "F", "i", "x", "a", "b", "l", "e", ":", " ", " ">> \o <<ToString(Len(r.fixes))>>) \o print(<<>>) \o
       (IF r.errors # <<>> THEN print(<<"S", "T", "A", "T", "U", "S", ":", " ", "[", "E", "R", "R", "O", "R", "]", " ", "D", "E",
    "P", "L", "O", "Y", "M", "E", "N", "T", " ", "W", "I", "L", "L", " ", "F", "A", "I", "L">>)
        ELSE IF r.warnings # <<>>
        THEN print(<<"S", "T", "A", "T", "U", "S", ":", " ", "[", "W", "A", "R", "N", "]", " ", " ", "D", "E",
    "P", "L", "O", "Y", "M", "E", "N", "T", " ", "M", "A", "Y", " ", "H", "A", "V", "E",
    " ", "I", "S", "S", "U", "E", "S">>)
        ELSE print(<<"S", "T", "A", "T", "U", "S", ":", " ", "[", "P", "A", "S", "S", "]", " ", "R", "E", "A",
    "D", "Y", " ", "F", "O", "R", " ", "D", "E", "P", "L", "O", "Y", "M", "E", "N", "T">>))

\* the line of every Fix, "[PASS] Done" for each that succeeded and "Fix failed"
\* for each that raised; the words of a description are one symbol
RECURSIVE fix_lines(_, _, _, _)
fix_lines(f, fixes, i, failed) ==
  IF i > Len(fixes) THEN <<>>
  ELSE print(<<"\n">> \o (IF f.dry_run THEN <<"[", "D", "R", "Y", "-", "R", "U", "N", "]", " ">> ELSE <<>>) \o
             <<"=", ">", " ">> \o <<fixes[i].description[1], " ">> \o fixes[i].description[2]) \o
       (IF f.dry_run THEN <<>>
        ELSE IF i \in failed THEN print(<<" ", " ", "[", "W", "A", "R", "N", "]", " ", " ", "F", "i", "x", " ", "f", "a", "i", "l",
    "e", "d", ":", " ">> \o <<"e">>)
        ELSE print(<<" ", " ", "[", "P", "A", "S", "S", "]", " ", "D", "o", "n", "e">>)) \o
       fix_lines(f, fixes, i + 1, failed)

\* what apply_fixes and the lines after it print
fix_text(f, r, failed, n_success, n_fail) ==
  IF f.fix /\ r.fixes # <<>>
  THEN print(<<"\n">> \o RULE) \o
       print(IF f.dry_run THEN <<"F", "I", "X", "E", "S", " ", "P", "R", "E", "V", "I", "E", "W", " ", "(", "d", "r", "y",
    "-", "r", "u", "n", ")">> ELSE <<"A", "P", "P", "L", "Y", "I", "N", "G", " ", "F", "I", "X", "E", "S">>) \o
       print(RULE) \o fix_lines(f, r.fixes, 1, failed) \o
       (IF ~f.quiet
        THEN print(<<"\n", "F", "i", "x", "e", "s", " ", "a", "p", "p", "l", "i", "e", "d", ":", " ">> \o <<ToString(n_success)>> \o
                   <<",", " ", "F", "a", "i", "l", "e", "d", ":", " ">> \o <<ToString(n_fail)>>) \o
             (IF ~f.dry_run /\ n_success > 0
              THEN print(<<"\n", "[", "T", "I", "P", "]", " ", "R", "e", "-", "r", "u", "n", " ", "v", "a", "l",
    "i", "d", "a", "t", "i", "o", "n", " ", "t", "o", " ", "v", "e", "r", "i", "f", "y",
    " ", "f", "i", "x", "e", "s", ":">>) \o
                   print(<<" ", " ", " ", "p", "y", "t", "h", "o", "n", "3", " ", "v", "a", "l", "i", "d", "a", "t",
    "e", "_", "a", "l", "l", ".", "p", "y">>)
              ELSE <<>>)
        ELSE <<>>)
  ELSE IF f.fix /\ r.fixes = <<>>
  THEN IF ~f.quiet THEN print(<<"\n", "[", "O", "K", "]", " ", "N", "o", "t", "h", "i", "n", "g", " ", "t", "o", " ",
    "f", "i", "x", "!">>) ELSE <<>>
  ELSE IF r.fixes # <<>> /\ ~f.json /\ ~f.quiet
  THEN print(<<"\n", "[", "-", "-", "f", "i", "x", "]", " ">> \o <<ToString(Len(r.fixes))>> \o
             <<" ", "e", "r", "r", "o", "r", "s", " ", "c", "a", "n", " ", "b", "e", " ", "a", "u", "t",
    "o", "-", "f", "i", "x", "e", "d", ":">>) \o
       print(<<" ", " ", " ", "p", "y", "t", "h", "o", "n", "3", " ", "v", "a", "l", "i", "d", "a", "t",
    "e", "_", "a", "l", "l", ".", "p", "y", " ", "-", "-", "f", "i", "x">>) \o
       print(<<" ", " ", " ", "p", "y", "t", "h", "o", "n", "3", " ", "v", "a", "l", "i", "d", "a", "t",
    "e", "_", "a", "l", "l", ".", "p", "y", " ", "-", "-", "f", "i", "x", " ", "-", "-",
    "d", "r", "y", "-", "r", "u", "n", " ", " ", "#", " ", "P", "r", "e", "v", "i", "e",
    "w", " ", "o", "n", "l", "y">>)
  ELSE <<>>

\* the run ended at one of the two fatal exits of main
NotFound == pc = "done" /\ marketplace_path = <<"none">>
InvalidJson == pc = "done" /\ marketplace_path # <<"none">> /\ "phase0" \notin phases

\* standard output of a run of main that has ended
stdout ==
  IF NotFound THEN out_not_found(flags)
  ELSE IF InvalidJson THEN out_invalid_json(flags, cwd, marketplace_path)
  ELSE LET banner == schema_banner(flags, validate_schema_static(fs0, marketplace_path))
       IN IF pc = "crashed" THEN Out(banner)
          ELSE IF flags.schema_only
          THEN LET o == out_schema_only(flags, total_result)
               IN [json |-> o.json, text |-> banner \o o.text]
          ELSE LET before == banner \o deploy_banner(flags, validate_deploy_readiness(env))
                   after == fix_text(flags, total_result, raised, success, fail)
                   text == before \o report_text(flags, total_result, cwd) \o after
               IN IF flags.json /\ before = <<>> /\ after = <<>>
                  THEN OutJson(json_report(total_result), text)
                  ELSE Out(text)

(***************************************************************************)
(* mark-validation-passed.py and enforce-plugin-test.py                    *)
(***************************************************************************)
\* number of hook runs that are explored
MaxHooks == 3

\* main of mark-validation-passed.py: TRUE when it writes the marker
mark_validation_passed(input) ==
  LET d == input.json
  IN IF d.ok /\ isdict(d.v)
     THEN get(d.v, "status", JNull) = JS(<<"p", "a", "s", "s">>) \/ get(d.v, "errors", JN(1)) = JN(0)
     ELSE LET text == lower(input.text)
          IN contains(text, <<"p", "a", "s", "s">>) /\ ~contains(text, <<"f", "a", "i", "l">>)

\* the report of the run is piped into mark-validation-passed.py, which reads
\* all of it ("input_data = sys.stdin.read()")
MarkValidationPassed ==
  /\ pc \in {"done", "crashed"}
  /\ hook_n < MaxHooks
  /\ \E input \in {stdout} :
       LET marked == mark_validation_passed(input)
       IN /\ marker' = (marker \/ marked)
          /\ hook_exit' = [hook |-> "mark", code |-> 0, reason |-> IF marked THEN "marked" ELSE ""]
  /\ hook_n' = hook_n + 1
  /\ UNCHANGED <<main_vars, cwd, state_file, skip_env, reg_vars>>

\* get_session_state of enforce-plugin-test.py
get_session_state(file) ==
  IF file = "tested" THEN [tested |-> TRUE]
  ELSE IF file = "untested" THEN [tested |-> FALSE]
  ELSE [tested |-> FALSE]

is_plugin_project(tree) ==
  \/ exists(tree, CP)
  \/ exists(tree, <<"marketplace", ".", "json">>)
  \/ exists(tree, MP_PATH)

Allow(reason) == hook_exit' = [hook |-> "stop", code |-> 0, reason |-> reason]

\* main of enforce-plugin-test.py: a Stop event of the session
EnforcePluginTest ==
  /\ pc \in {"done", "crashed"}
  /\ hook_n < MaxHooks
  /\ hook_n' = hook_n + 1
  /\ IF get_session_state(state_file).tested
     THEN Allow("Plugin tests passed") /\ state_file' = "absent" /\ UNCHANGED marker
     ELSE IF ~is_plugin_project(fs)
     THEN Allow("Not a plugin project") /\ UNCHANGED <<state_file, marker>>
     ELSE IF marker
     THEN Allow("Validation passed") /\ marker' = FALSE /\ UNCHANGED state_file
     ELSE IF skip_env
     THEN Allow("Enforcement skipped by environment") /\ UNCHANGED <<state_file, marker>>
     ELSE /\ hook_exit' = [hook |-> "stop", code |-> 2, reason |-> "Plugin testing not performed"]
          /\ UNCHANGED <<state_file, marker>>
  /\ UNCHANGED <<main_vars, cwd, skip_env, reg_vars>>

BYPASS_DIR == <<"/", "w", "/", "b", "y", "p", "a", "s", "s">>

\* a host where every tool answers and a host whose answers are errors
HookHosts ==
  {Host("pass", "clean", "absent", FALSE, "clean", "accessible", {}),
   Host("fail", "error", "mismatch", FALSE, "dirty", "inaccessible", {})}

\* one run of the validator, then the hooks of the session
HookInit ==
  /\ \E f \in CommandLines, e \in HookHosts, tree \in Trees : StartRun(f, e, tree, {}, 1)
  /\ cwd \in {PLUG_DIR, BYPASS_DIR}
  /\ marker = FALSE
  /\ state_file \in {"absent", "tested", "untested", "corrupt"}
  /\ skip_env \in BOOLEAN
  /\ hook_exit = NoHook /\ hook_n = 0
  /\ RegIdle

HookNext ==
  \/ FindManifest \/ ParseManifest \/ Phase0 \/ Phase1 \/ Phase2 \/ Phase3 \/ Phase4 \/ Phase5
  \/ Phase6 \/ ApplyFix \/ FixesDone \/ ExitCode \/ MarkValidationPassed \/ EnforcePluginTest

HookSpec == HookInit /\ [][HookNext]_vars

\* the report of the run that has ended tells of an error
ReportHasErrors ==
  pc = "crashed" \/ NotFound \/ InvalidJson \/ (pc = "done" /\ total_result.errors # <<>>)

HookRan(name) == hook_n' = hook_n + 1 /\ hook_exit'.hook = name

\* a Stop with no marker, no tested state and no skip variable, in a plugin project
NothingAllows ==
  /\ is_plugin_project(fs) /\ ~marker /\ ~get_session_state(state_file).tested /\ ~skip_env

\* C29: the "validation passed" marker is a one-shot flag: mark-validation-passed
\* writes it only for a report without errors, enforce-plugin-test deletes it
\* when it allows a Stop because of it, and a Stop in a plugin project with no
\* marker, no tested state and no skip variable is blocked with exit code 2.
C29_MarkerIsOneShotPassFlag ==
  [][/\ (HookRan("mark") /\ ~marker /\ marker') => ~ReportHasErrors
     /\ (HookRan("stop") /\ hook_exit'.reason = "Validation passed") => (marker /\ ~marker')
     /\ (HookRan("stop") /\ NothingAllows) => hook_exit'.code = 2]_vars

(***************************************************************************)
(* register_local.py and check_local_registration.py                       *)
(***************************************************************************)
\* a JSON boolean
JB(b) == [t |-> "bool", b |-> b]

\* ~/.claude/settings.json, below the home directory
CLAUDE_DIR == <<".claude">>
SETTINGS_PATH == <<".claude", "/", "settings", ".", "json">>

\* read_settings: {} when the file is absent or is not JSON
read_settings(tree) == load_json(tree, SETTINGS_PATH).v

\* save_settings: "mkdir(parents=True, exist_ok=True)", then json.dump(indent=2)
save_settings(tree, settings) ==
  [tree EXCEPT !.dirs = @ \cup {CLAUDE_DIR},
               !.files = [q \in (DOMAIN @) \cup {SETTINGS_PATH} |->
                            IF q = SETTINGS_PATH
                            THEN [k |-> "json", v |-> settings, fmt |-> "indent2"]
                            ELSE @[q]]]

\* get_marketplace_name: the manifest's name, or the name of the directory
get_marketplace_name(tree, plugin_path) ==
  LET ld == load_json(tree, MP_PATH)
  IN IF exists(tree, MP_PATH) /\ ld.ok THEN get(ld.v, "name", JS(PName(plugin_path))).v
     ELSE PName(plugin_path)

\* get_plugin_name: the name of the first plugin, or "plugin"
get_plugin_name(tree) ==
  LET ld == load_json(tree, MP_PATH)
      plugins == get(ld.v, "plugins", JL(<<>>))
  IN IF exists(tree, MP_PATH) /\ ld.ok /\ plugins.v # <<>>
     THEN get(plugins.v[1], "name", JS(<<"p", "l", "u", "g", "i", "n">>)).v
     ELSE <<"p", "l", "u", "g", "i", "n">>

\* f"{marketplace_name}-local"
local_key_of(tree, plugin_path) == get_marketplace_name(tree, plugin_path) \o <<"-", "l", "o", "c", "a", "l">>

\* f"{plugin_name}@{local_key}"
plugin_ref_of(tree, plugin_path) == get_plugin_name(tree) \o <<"@">> \o local_key_of(tree, plugin_path)

\* the plugin references of enabledPlugins, object or list
enabled_refs(enabled_plugins) ==
  IF isdict(enabled_plugins) THEN DOMAIN enabled_plugins.v
  ELSE { enabled_plugins.v[i].v : i \in 1..Len(enabled_plugins.v) }

\* plugin_ref.rsplit("@", 1)
rsplit_at(plugin_ref) ==
  LET i == LastIdx(plugin_ref, "@")
  IN [name |-> SubSeq(plugin_ref, 1, i - 1), marketplace |-> SubSeq(plugin_ref, i + 1, Len(plugin_ref))]

\* detect_existing_registration: the enabled references to this plugin from
\* another marketplace
detect_existing_registration(plugin_name, settings, exclude_marketplace) ==
  LET enabled_plugins == get(settings, "enabledPlugins", JO(EmptyObj))
  IN { plugin_ref \in enabled_refs(enabled_plugins) :
         /\ isdict(enabled_plugins) => truthy(enabled_plugins.v[plugin_ref])
         /\ LastIdx(plugin_ref, "@") # 0
         /\ rsplit_at(plugin_ref).name = plugin_name
         /\ rsplit_at(plugin_ref).marketplace # exclude_marketplace }

\* the entry register_local writes under extraKnownMarketplaces
directory_source(plugin_path) ==
  JO([source |-> JO([source |-> JS(<<"d", "i", "r", "e", "c", "t", "o", "r", "y">>),
                     path |-> JS(replace(plugin_path, <<"\\">>, <<"/">>))])])

\* an entry with the discriminator check_local_registration looks for
local_source(plugin_path) ==
  JO([source |-> JO([source |-> JS(<<"l", "o", "c", "a", "l">>),
                     path |-> JS(replace(plugin_path, <<"\\">>, <<"/">>))])])

\* register_local: the settings it returns
register_local(tree, plugin_path, settings) ==
  LET local_key == local_key_of(tree, plugin_path)
      plugin_ref == plugin_ref_of(tree, plugin_path)
      extra == get(settings, "extraKnownMarketplaces", JO(EmptyObj))
      old == get(settings, "enabledPlugins", JO(EmptyObj))
      enabled == IF islist(old) THEN JO([r \in enabled_refs(old) |-> JB(TRUE)]) ELSE old
  IN setkey(setkey(settings, "extraKnownMarketplaces",
                   setkey(extra, local_key, directory_source(plugin_path))),
            "enabledPlugins", setkey(enabled, plugin_ref, JB(TRUE)))

\* list.remove(x)
RECURSIVE list_remove(_, _)
list_remove(l, x) ==
  IF l = <<>> THEN <<>>
  ELSE IF Head(l) = x THEN Tail(l) ELSE <<Head(l)>> \o list_remove(Tail(l), x)

\* unregister_local: the settings it returns and what it removed
unregister_local(tree, plugin_path, settings) ==
  LET local_key == local_key_of(tree, plugin_path)
      plugin_ref == plugin_ref_of(tree, plugin_path)
      removed_marketplace == /\ has(settings, "extraKnownMarketplaces")
                             /\ has(settings.v["extraKnownMarketplaces"], local_key)
      s1 == IF removed_marketplace
            THEN setkey(settings, "extraKnownMarketplaces",
                        popkey(settings.v["extraKnownMarketplaces"], local_key))
            ELSE settings
      removed_plugin == /\ has(settings, "enabledPlugins")
                        /\ plugin_ref \in enabled_refs(settings.v["enabledPlugins"])
      old == settings.v["enabledPlugins"]
      s2 == IF ~removed_plugin THEN s1
            ELSE IF isdict(old) THEN setkey(s1, "enabledPlugins", popkey(old, plugin_ref))
            ELSE setkey(s1, "enabledPlugins", JL(list_remove(old.v, JS(plugin_ref))))
  IN [settings |-> s2, removed_marketplace |-> removed_marketplace,
      removed_plugin |-> removed_plugin]

\* normalize_path: resolve() takes the slash off the end of an absolute path
normalize_path(path) == lower(replace(rstrip(path, {"/"}), <<"\\">>, <<"/">>))

\* the keys of extraKnownMarketplaces whose source is "local" at this path
local_keys(plugin_path, settings) ==
  LET extra == get(settings, "extraKnownMarketplaces", JO(EmptyObj))
  IN { key \in DOMAIN extra.v :
         LET source == get(extra.v[key], "source", JO(EmptyObj))
         IN /\ get(source, "source", JNull) = JS(<<"l", "o", "c", "a", "l">>)
            /\ normalize_path(get(source, "path", JS(<<>>)).v) = normalize_path(plugin_path) }

\* check_local_registration: the loop stops at the first key that matches
check_local_registration(plugin_path, settings) ==
  LET found == local_keys(plugin_path, settings)
      refs == enabled_refs(get(settings, "enabledPlugins", JL(<<>>)))
  IN [is_registered |-> found # {},
      is_enabled |-> /\ found # {}
                     /\ LET registered_key == CHOOSE key \in found : TRUE
                        IN \E plugin_ref \in refs : contains(plugin_ref, <<"@">> \o registered_key)]

RegResult(op, code, r) ==
  [op |-> op, code |-> code, is_registered |-> r.is_registered, is_enabled |-> r.is_enabled,
   after |-> last_write]

NoCheck == [is_registered |-> FALSE, is_enabled |-> FALSE]

\* main of register_local.py without --unregister
RegisterLocal ==
  \E dry_run \in BOOLEAN, force \in BOOLEAN :
    LET settings == read_settings(home)
        existing == detect_existing_registration(get_plugin_name(fs), settings,
                                                 local_key_of(fs, cwd))
    IN /\ IF ~exists(fs, MP_PATH) \/ (existing # {} /\ ~force)
          THEN reg_out' = RegResult("register", 1, NoCheck) /\ UNCHANGED <<home, last_write>>
          ELSE IF dry_run
          THEN reg_out' = RegResult("register", 0, NoCheck) /\ UNCHANGED <<home, last_write>>
          ELSE /\ home' = save_settings(home, register_local(fs, cwd, settings))
               /\ last_write' = "register"
               /\ reg_out' = [RegResult("register", 0, NoCheck) EXCEPT !.after = "register"]
       /\ UNCHANGED <<main_vars, hook_vars>>

\* main of register_local.py with --unregister
UnregisterLocal ==
  \E dry_run \in BOOLEAN :
    LET result == unregister_local(fs, cwd, read_settings(home))
    IN /\ IF ~exists(fs, MP_PATH)
          THEN reg_out' = RegResult("unregister", 1, NoCheck) /\ UNCHANGED <<home, last_write>>
          ELSE IF dry_run
          THEN reg_out' = RegResult("unregister", 0, NoCheck) /\ UNCHANGED <<home, last_write>>
          ELSE IF ~result.removed_marketplace /\ ~result.removed_plugin
          THEN reg_out' = RegResult("unregister", 1, NoCheck) /\ UNCHANGED <<home, last_write>>
          ELSE /\ home' = save_settings(home, result.settings)
               /\ last_write' = "unregister"
               /\ reg_out' = [RegResult("unregister", 0, NoCheck) EXCEPT !.after = "unregister"]
       /\ UNCHANGED <<main_vars, hook_vars>>

\* main of check_local_registration.py
CheckLocalRegistration ==
  /\ IF ~exists(fs, MP_PATH) THEN reg_out' = RegResult("check", 2, NoCheck)
     ELSE LET result == check_local_registration(cwd, read_settings(home))
          IN reg_out' = RegResult("check",
                                  IF result.is_registered /\ result.is_enabled THEN 0 ELSE 1,
                                  result)
  /\ UNCHANGED <<main_vars, hook_vars, home, last_write>>

MIXED_DIR == <<"/", "w", "/", "P", "l", "u", "g">>

\* a home directory whose settings.json holds this
HomeWith(content) ==
  [files |-> OneFile(SETTINGS_PATH, content), dirs |-> {CLAUDE_DIR}, xbits |-> {}]

Settings(extra, enabled) == Json(JO([extraKnownMarketplaces |-> extra, enabledPlugins |-> enabled]))

\* the settings the scripts may find: none, not JSON, empty, a registration in
\* the older "local" form under the same key and under another key, and the
\* plugin enabled from another marketplace
Homes(tree, plugin_path) ==
  LET key == local_key_of(tree, plugin_path)
      ref == plugin_ref_of(tree, plugin_path)
      name == get_plugin_name(tree)
      OLD == <<"o", "l", "d">>
  IN {NoHome, HomeWith(BadJson), HomeWith(Json(JO(EmptyObj))),
      HomeWith(Settings(JO([k \in {key} |-> local_source(plugin_path)]),
                        JL(<<JS(ref)>>))),
      HomeWith(Settings(JO([k \in {OLD} |-> local_source(plugin_path \o <<"/">>)]),
                        JO([r \in {name \o <<"@">> \o OLD} |-> JB(TRUE)]))),
      HomeWith(Settings(JO(EmptyObj),
                        JO([r \in {name \o <<"@", "o", "f", "f", "i", "c", "i", "a", "l">>} |-> JB(TRUE)])))}

RegTrees == {CleanTree, NameWarningTree, TwoPluginTree, BadManifestTree, NoManifestTree}

\* the registration scripts on one plugin project and one home directory
RegInit ==
  /\ \E tree \in RegTrees :
       /\ StartRun(Flags({}), Host("pass", "clean", "absent", FALSE, "clean", "accessible", {}),
                   tree, {}, 1)
       /\ \E dir \in {PLUG_DIR, MIXED_DIR} : cwd = dir /\ home \in Homes(tree, dir)
  /\ marker = FALSE /\ state_file = "absent" /\ skip_env = FALSE
  /\ hook_exit = NoHook /\ hook_n = 0
  /\ last_write = "none" /\ reg_out = NoReg

RegNext == RegisterLocal \/ UnregisterLocal \/ CheckLocalRegistration

RegSpec == RegInit /\ [][RegNext]_vars

\* C30: local registration is observed consistently: once the settings that
\* register_local produced for a plugin path are saved, check_local_registration
\* on the same path and settings reports is_registered and is_enabled; once
\* those of unregister_local are saved it reports is_registered false.
C30_CheckSeesRegistration ==
  (reg_out.op = "check" /\ reg_out.code # 2) =>
     /\ reg_out.after = "register" => (reg_out.is_registered /\ reg_out.is_enabled)
     /\ reg_out.after = "unregister" => ~reg_out.is_registered

(***************************************************************************)
(* PROPERTIES                                                              *)
(***************************************************************************)
Done == pc = "done"

\* the run went through all phases and left through the exit code at the end of main
FullPath == Done /\ "phase6" \in phases

\* --fix without --dry-run
FixApply == flags.fix /\ ~flags.dry_run

\* error i of the report had no Fix, or its Fix raised when the batch ran
Unresolved(i) ==
  LET e == total_result.errors[i]
  IN e.fix = NoFix \/ \E j \in raised : total_result.fixes[j] = e.fix

\* C1: with --fix and without --dry-run the exit code is 1 exactly when some
\* reported error is still unresolved after the fix batch (it had no Fix, or
\* its Fix failed), and is not 1 when every reported error was fixed.
C1_ExitCodeReflectsFixes ==
  (FullPath /\ FixApply) =>
     (exit_code = 1 <=> \E i \in 1..Len(total_result.errors) : Unresolved(i))

\* C2: on the full path without --fix the exit code is 1 iff the report has an
\* error, 2 iff it has no error and a warning, 0 otherwise; on the
\* --schema-only fast path it is 1 iff the report has an error and 0 otherwise.
C2_ExitCodeMapping ==
  /\ (FullPath /\ ~flags.fix) =>
        /\ exit_code = 1 <=> total_result.errors # <<>>
        /\ exit_code = 2 <=> (total_result.errors = <<>> /\ total_result.warnings # <<>>)
        /\ exit_code = 0 <=> (total_result.errors = <<>> /\ total_result.warnings = <<>>)
  /\ (Done /\ flags.schema_only /\ "phase0" \in phases) =>
        /\ exit_code = 1 <=> total_result.errors # <<>>
        /\ exit_code = 0 <=> total_result.errors = <<>>

\* C2 witness: a schema-only run that ended with warnings alone
C2_Witness ==
  /\ Done /\ flags.schema_only /\ "phase0" \in phases
  /\ total_result.errors = <<>> /\ total_result.warnings # <<>>

\* C3: with --schema-only main stops right after Phase 0: no Phase 1-6 checker
\* runs, no Fix is listed or applied (even with --fix), no cache directory is
\* removed, the tree is unchanged and nothing but the manifest is read.
C3_SchemaOnlyStopsAfterPhase0 ==
  flags.schema_only =>
     /\ pc \in {"find_manifest", "parse_manifest", "phase0", "done"}
     /\ phases \subseteq {"phase0"}
     /\ printed = <<>> /\ attempted = <<>>
     /\ cache = cache0 /\ fs = fs0
     /\ reads \subseteq {"manifest"}

\* C3 witness: a finished --schema-only --fix run whose report holds Fixes,
\* with an outdated cache directory on the host
C3_Witness ==
  /\ Done /\ flags.schema_only /\ flags.fix /\ "phase0" \in phases
  /\ total_result.fixes # <<>>
  /\ \E d \in cache0 : d.ver = <<"0.9.0">> /\ ~d.locked

\* the manifest main would load from tree is absent or is not valid JSON
ManifestUnusable(tree) ==
  \/ find_marketplace_json(tree, plugin_root) = <<"none">>
  \/ ~load_json(tree, find_marketplace_json(tree, plugin_root)).ok

\* C4: if the manifest is absent or not valid JSON, main stops before Phase 0
\* with exit code 1: no phase runs, no Fix is applied, no file is modified.
C4_UnusableManifestIsFatal ==
  ManifestUnusable(fs0) =>
     /\ pc \in {"find_manifest", "parse_manifest", "done"}
     /\ Done => exit_code = 1
     /\ phases = {} /\ printed = <<>> /\ attempted = <<>>
     /\ fs = fs0 /\ cache = cache0

\* C4 witness: a finished --fix run on a manifest that is not valid JSON
C4_Witness ==
  /\ Done /\ flags.fix /\ ~flags.dry_run
  /\ is_file(fs0, MP_PATH) /\ fs0.files[MP_PATH] = BadJson
  /\ exit_code = 1

\* C5 (as stated): without --fix, or with --fix --dry-run, the manifest, the
\* source tree and the plugin cache directories are the same after the run as
\* before it.
C5_NoWriteWithoutFixApply ==
  (Done /\ ~FixApply) => (fs = fs0 /\ cache = cache0)

\* the cached version directories Phase 6 finds outdated for the manifest of
\* tree and is able to remove
StaleDirs(tree, dirs) ==
  LET m == load_json(tree, MP_PATH).v
      plugins == get(m, "plugins", JL(<<>>))
      named == /\ truthy(plugins) /\ truthy(get(m, "name", JS(<<>>)))
               /\ truthy(get(plugins.v[1], "name", JS(<<>>)))
      local_version == get(plugins.v[1], "version", JS(<<>>))
  IN IF ~named \/ ~truthy(local_version) THEN {}
     ELSE {d \in dirs : d.manifest # "none" /\ ~d.locked /\ JS(cached_ver(d)) # local_version}

\* C5 (amended): without fix-apply a run leaves the manifest and the source
\* tree as they were, and the only write is Phase 6's: once it has run the
\* cache has lost exactly the outdated version directories it could remove.
C5_OnlyPhase6WritesWithoutFixApply ==
  ~FixApply =>
     /\ fs = fs0
     /\ cache = IF "phase6" \in phases THEN cache0 \ StaleDirs(fs0, cache0) ELSE cache0

\* C5 witness: a finished run without --fix that removed a cache directory
C5_Witness ==
  Done /\ ~flags.fix /\ "phase6" \in phases /\ cache # cache0

\* the descriptions of a sequence of Fixes
Descriptions(fixes) == [i \in 1..Len(fixes) |-> fixes[i].description]

\* the apply_fixes call of this run has returned
BatchDone == pc \in {"exit", "done"} /\ "phase6" \in phases /\ flags.fix

\* C6: in apply mode apply_fixes attempts every Fix of the batch once, in
\* report order, whether or not earlier ones raised; success + fail is the
\* number of Fixes and fail is the number of Fixes that raised.
C6_EveryFixAttempted ==
  FixApply =>
     /\ pc = "apply_fixes" =>
          /\ attempted = SubSeq(total_result.fixes, 1, fix_i - 1)
          /\ success + fail = fix_i - 1
          /\ fail = Cardinality(raised)
     /\ BatchDone =>
          /\ attempted = total_result.fixes
          /\ success + fail = Len(total_result.fixes)
          /\ fail = Cardinality(raised)

\* C6 witness: a finished batch in which a Fix raised and later ones were attempted
C6_Witness ==
  /\ FixApply /\ BatchDone /\ Done
  /\ \E j \in raised : j < Len(attempted)
  /\ success > 0 /\ fail > 0

\* C7: in dry-run mode apply_fixes calls no fix function and leaves the tree
\* unchanged, and the descriptions it lists are those of the batch in order,
\* the same ones apply mode lists for the Fixes it attempts.
C7_DryRunListsWhatApplyAttempts ==
  (flags.fix /\ (pc = "apply_fixes" \/ BatchDone)) =>
     /\ printed = Descriptions(SubSeq(total_result.fixes, 1, fix_i - 1))
     /\ BatchDone /\ total_result.fixes # <<>> => printed = Descriptions(total_result.fixes)
     /\ flags.dry_run => (attempted = <<>> /\ fs = fs0 /\ fail = 0)
     /\ ~flags.dry_run => Descriptions(attempted) = printed

\* C7 witness: a finished dry-run preview of a batch one of whose Fixes would
\* change the tree and one of whose Fixes would raise
C7_Witness ==
  /\ flags.fix /\ flags.dry_run /\ Done /\ BatchDone
  /\ Len(printed) > 1
  /\ \E i \in 1..Len(total_result.fixes) : ~Fix_apply(fs, total_result.fixes[i]).ok
  /\ \E i \in 1..Len(total_result.fixes) : Fix_apply(fs, total_result.fixes[i]).fs # fs

\* one more pass of apply_fixes over a batch, from tree
RECURSIVE apply_batch(_, _)
apply_batch(tree, fixes) ==
  IF fixes = <<>> THEN tree
  ELSE apply_batch(Fix_apply(tree, Head(fixes)).fs, Tail(fixes))

\* C8: applying the Fix batch of a run a second time is a no-op: it leaves
\* the manifest and every file as the first application left them.
C8_BatchIdempotent ==
  (Done /\ FixApply /\ BatchDone) => apply_batch(fs, total_result.fixes) = fs

\* the first plugin entry of the manifest of tree registers path under component_type
Registers(tree, component_type, path) ==
  /\ ~ManifestUnusable(tree)
  /\ LET items == component_items(plugins_of(load_json(tree, MP_PATH).v).v[1], component_type)
     IN \E i \in 1..Len(items) : items[i] = JS(path)

FOO_MD == PMd("skills", FOO)
FOO_SKILL_MD == P("skills", FOO) \o <<"/">> \o SKILL_MD

\* C9: with skills: ["./skills/foo.md"] and skills/foo.md a file, one run with
\* --fix leaves skills/foo/SKILL.md holding exactly the original content of
\* skills/foo.md, and validation then reports no skill-structure error.
C9_SkillConversionKeepsContent ==
  (/\ Done /\ FixApply /\ BatchDone
   /\ Registers(fs0, "skills", DOTSLASH \o FOO_MD) /\ is_file(fs0, FOO_MD)) =>
     /\ is_file(fs, FOO_SKILL_MD)
     /\ fs.files[FOO_SKILL_MD] = fs0.files[FOO_MD]
     /\ LET r == validate_component_locations(fs, plugin_root, marketplace_path)
        IN \A i \in 1..Len(r.errors) : r.errors[i].fix.fn # "fix_skill_structure"

\* the paths the first plugin entry of the manifest of tree registers with the
\* wrong extension for component_type
WrongExtension(tree, component_type) ==
  LET items == component_items(plugins_of(load_json(tree, MP_PATH).v).v[1], component_type)
  IN {items[i].v : i \in {j \in 1..Len(items) :
         /\ isstr(items[j])
         /\ IF component_type = "skills" THEN endswith(items[j].v, MD)
            ELSE ~endswith(items[j].v, MD)}}

\* what the schema validator and the reconciler report for tree
revalidate(tree) ==
  merge(validate_schema_static(tree, MP_PATH),
        validate_registration(tree, plugin_root,
                              plugins_of(load_json(tree, MP_PATH).v).v[1], MP_PATH))

\* C10: for a component path with the wrong extension for its type, a run
\* reports exactly one error for that path, the error carries a Fix, and once
\* that Fix is applied validation no longer reports the error.
C10_OneFixableErrorPerWrongExtension ==
  (Done /\ "phase6" \in phases) =>
     \A component_type \in {"commands", "agents", "skills"} :
       \A path \in WrongExtension(fs0, component_type) :
         LET about == {i \in 1..Len(total_result.errors) : total_result.errors[i].subj = path}
         IN /\ Cardinality(about) = 1
            /\ \A i \in about :
                 LET e == total_result.errors[i]
                     again == revalidate(Fix_apply(fs0, e.fix).fs).errors
                 IN /\ e.fix # NoFix
                    /\ \A k \in 1..Len(again) : again[k] # e

\* the plugin entries of the manifest of tree
entries(tree) == plugins_of(load_json(tree, MP_PATH).v).v

\* what Phase 0 and the file checks of Phase 2 report for tree
file_checks(tree, yaml) ==
  merge_all(validate_schema_static(tree, MP_PATH),
            <<validate_component_locations(tree, plugin_root, MP_PATH),
              validate_path_resolution_consistency(tree, plugin_root, MP_PATH),
              validate_github_source_with_local_files(tree, plugin_root, MP_PATH)>>
            \o [i \in 1..Len(entries(tree)) |-> phase2_plugin(tree, entries(tree)[i], yaml)]
            \o <<validate_plugin_json(tree, plugin_root), validate_hooks_json(tree, plugin_root)>>)

\* the spellings under which a manifest may register the file f
Spellings(f) == {JS(DOTSLASH \o f), JS(f), JS(DOTSLASH \o PWithoutSuffix(f)), JS(PWithoutSuffix(f))}

\* the files commands/*.md of tree that no plugin entry of the manifest
\* registers, under any spelling of the path
UnregisteredCommands(tree) ==
  IF ManifestUnusable(tree) THEN {}
  ELSE {f \in glob_md(tree, <<"commands">>) :
          \A i \in 1..Len(entries(tree)) :
            Spellings(f) \cap SeqToSet(component_items(entries(tree)[i], "commands")) = {}}

\* the error validate_registration reports for the unregistered command file f
IsUnregistered(e, f) == e.kind = "commands: exists but NOT REGISTERED" /\ e.subj = f

\* f is the only thing wrong with tree
OnlyUnregistered(tree, yaml, f) ==
  /\ f \in UnregisteredCommands(tree)
  /\ \A i \in 1..Len(file_checks(tree, yaml).errors) :
       IsUnregistered(file_checks(tree, yaml).errors[i], f)

\* C11: for commands/foo.md present and absent from the manifest's commands
\* list in an otherwise consistent tree, a run reports exactly one
\* "unregistered" error for it; its Fix adds "./commands/foo.md" to the
\* commands list, and validation of the fixed tree no longer reports foo as
\* unregistered and passes.
C11_UnregisteredCommandFixed ==
  (Done /\ "phase6" \in phases) =>
     \A f \in {g \in UnregisteredCommands(fs0) : OnlyUnregistered(fs0, env.yaml, g)} :
       LET about == {i \in 1..Len(total_result.errors) : IsUnregistered(total_result.errors[i], f)}
       IN /\ Cardinality(about) = 1
          /\ \A i \in about :
               LET after == Fix_apply(fs0, total_result.errors[i].fix).fs
               IN /\ JS(DOTSLASH \o f) \in SeqToSet(component_items(entries(after)[1], "commands"))
                  /\ f \notin UnregisteredCommands(after)
                  /\ file_checks(after, env.yaml).errors = <<>>

\* where main looks for the component item of plugin entry i of tree
DeclaredTarget(tree, i, item) ==
  PJoin(main_effective_root(plugin_root, get(entries(tree)[i], "source", JS(DOTSLASH))),
        lstrip(item, {".", "/"}))

\* the declared command, agent and skill entries <<type, i, item>> of tree
\* whose target exists nowhere: not at the declared location, not under
\* another spelling of the extension, not inside .claude-plugin/
MissingEntries(tree) ==
  IF ManifestUnusable(tree) THEN {}
  ELSE UNION { UNION { { <<t, i, it.v>> :
                         it \in { x \in SeqToSet(component_items(entries(tree)[i], t)) :
                                    /\ isstr(x)
                                    /\ ~exists(tree, DeclaredTarget(tree, i, x.v))
                                    /\ ~exists(tree, DeclaredTarget(tree, i, x.v) \o MD)
                                    /\ ~exists(tree, PJoin(CP, lstrip(x.v, {".", "/"}))) } } :
                       i \in 1..Len(entries(tree)) } :
               t \in {"commands", "agents", "skills"} }

STUB_FIXES == {"fix_create_command_stub", "fix_create_agent_stub", "fix_create_skill_stub"}

\* C12: for every declared command, agent or skill entry whose target exists
\* nowhere on disk the report holds an error for the entry and a Fix that
\* scaffolds a stub at the declared location, whether or not the component
\* directory exists, so that the target exists afterwards.
C12_MissingEntryGetsStubFix ==
  (Done /\ "phase6" \in phases) =>
     \A m \in MissingEntries(fs0) :
       LET target == DeclaredTarget(fs0, m[2], m[3])
       IN /\ \E i \in 1..Len(total_result.errors) : total_result.errors[i].subj \in {m[3], target}
          /\ \E k \in 1..Len(total_result.fixes) :
               /\ total_result.fixes[k].fn \in STUB_FIXES
               /\ exists(Fix_apply(fs0, total_result.fixes[k]).fs, target)

\* the Fixes that rewrite the manifest, and the plugin-entry fields each one targets
MANIFEST_FIXES ==
  {"fix_add_to_marketplace", "fix_path_format", "fix_source_path", "fix_github_source_format",
   "fix_repository_to_string", "fix_skills_complete"}

TargetFields(fix) ==
  CASE fix.fn \in {"fix_add_to_marketplace", "fix_path_format"} -> {fix.args.item_type}
    [] fix.fn = "fix_source_path" -> {"source"}
    [] fix.fn = "fix_github_source_format" -> {"source", "repo"}
    [] fix.fn = "fix_repository_to_string" -> {"repository"}
    [] OTHER -> {"skills"}

\* plugin entry a equals plugin entry b outside the given fields
SameOutside(a, b, fields) ==
  /\ (DOMAIN a.v) \ fields = (DOMAIN b.v) \ fields
  /\ \A key \in (DOMAIN a.v) \ fields : a.v[key] = b.v[key]

\* the manifest of after is that of before except for the targeted fields of
\* one plugin entry
EditsOneEntry(before, after, fields) ==
  LET old == load_json(before, MP_PATH).v
      new == load_json(after, MP_PATH).v
  IN /\ load_json(after, MP_PATH).ok
     /\ SameOutside(old, new, {"plugins"})
     /\ Len(entries(after)) = Len(entries(before))
     /\ \E j \in 1..Len(entries(before)) :
          /\ SameOutside(entries(before)[j], entries(after)[j], fields)
          /\ \A i \in 1..Len(entries(before)) : i # j => entries(after)[i] = entries(before)[i]

\* C13: after a manifest-editing Fix is applied the manifest still parses and
\* every field other than the one the Fix targets, the component lists of
\* the other plugin entries included, has the value it had before.
C13_ManifestFixKeepsOtherFields ==
  (Done /\ "phase6" \in phases) =>
     \A k \in 1..Len(total_result.fixes) :
       LET fix == total_result.fixes[k]
       IN (fix.fn \in MANIFEST_FIXES /\ Fix_apply(fs0, fix).ok) =>
             EditsOneEntry(fs0, Fix_apply(fs0, fix).fs, TargetFields(fix))

\* C14: the source of a plugin entry resolves to one effective root, and the
\* location check, the registration check and the skill conversion Fix all
\* resolve the entry's component paths against that directory.
C14_OneEffectiveRoot ==
  (Done /\ "phase6" \in phases) =>
     \A i \in 1..Len(entries(fs0)) :
       LET source == get(entries(fs0)[i], "source", JS(DOTSLASH))
           root == main_effective_root(plugin_root, source)
       IN /\ locations_effective_root(plugin_root, source) = root
          /\ \A k \in 1..Len(total_result.fixes) :
               LET fix == total_result.fixes[k]
               IN (/\ fix.fn = "fix_skill_structure"
                   /\ JS(fix.args.skill_path) \in SeqToSet(component_items(entries(fs0)[i], "skills")))
                  => fix.args.plugin_root = root

\* o[key] is an object with a key outside allowed
UnknownKeyIn(o, key, allowed) ==
  has(o, key) /\ isdict(o.v[key]) /\ (DOMAIN o.v[key].v) \ allowed # {}

\* the objects <<kind, i>> of the manifest of tree that hold a key outside
\* their allow-list (i is the plugin entry, 0 for the manifest's own objects)
UnknownKeyObjects(tree) ==
  LET m == load_json(tree, MP_PATH).v
      plugin_objects == {j \in 1..Len(entries(tree)) : isdict(entries(tree)[j])}
  IN {<<"root", 0>> : x \in IF (DOMAIN m.v) \ ALLOWED_FIELDS.marketplace # {} THEN {0} ELSE {}}
     \cup {<<"owner", 0>> : x \in IF UnknownKeyIn(m, "owner", ALLOWED_FIELDS.owner)
                                  THEN {0} ELSE {}}
     \cup {<<"metadata", 0>> : x \in IF UnknownKeyIn(m, "metadata", ALLOWED_FIELDS.metadata)
                                     THEN {0} ELSE {}}
     \cup {<<"plugin", i>> : i \in {j \in plugin_objects :
                                      (DOMAIN entries(tree)[j].v) \ ALLOWED_FIELDS.plugin # {}}}
     \cup {<<"author", i>> : i \in {j \in plugin_objects :
                                      UnknownKeyIn(entries(tree)[j], "author", ALLOWED_FIELDS.author)}}

\* C15: each object of the manifest (root, owner, metadata, plugin entry,
\* author) that holds a key outside its allow-list makes Phase 0 report an
\* unrecognized-field error for it.
C15_UnknownKeysAreErrors ==
  ("phase0" \in phases) =>
     LET errors == validate_schema_static(fs0, MP_PATH).errors
     IN Cardinality({i \in 1..Len(errors) : errors[i].code = "E013"})
          >= Cardinality(UnknownKeyObjects(fs0))

\* a source object that uses the key "type" instead of "source"
WrongKey(source) == isdict(source) /\ has(source, "type") /\ ~has(source, "source")

\* a source of the wrong type or shape: not a string or object, or an object
\* with neither key
WrongShape(source) ==
  \/ ~isstr(source) /\ ~isdict(source)
  \/ isdict(source) /\ ~has(source, "type") /\ ~has(source, "source")

WRONG_KEY_SOURCES ==
  {JO([type |-> JS(GITHUB)]), JO([type |-> JS(URL), url |-> JS(<<"https://", "x">>)]),
   JO([type |-> JS(GITHUB), repo |-> JS(<<"me", "/", "plug">>)])}

WRONG_SHAPE_SOURCES ==
  {JNull, JL(<<>>), JL(<<JS(<<"x">>)>>), JO(EmptyObj), JO([repo |-> JS(<<"me", "/", "plug">>)])}

\* the error codes of a report
Codes(r) == {r.errors[i].code : i \in 1..Len(r.errors)}

\* the codes this run reported for the source of plugin entry i
ReportedSourceCodes(i) ==
  LET r == validate_source_schema(entries(fs0)[i].v["source"], i, MP_PATH)
  IN {total_result.errors[k].code :
        k \in {n \in 1..Len(total_result.errors) :
                 \E j \in 1..Len(r.errors) : r.errors[j] = total_result.errors[n]}}

\* C16: the code the Schema Validator reports for a source object with the
\* key "type" and without the key "source" differs from every code it reports
\* for a source of the wrong type or shape.
C16_WrongKeyHasOwnCode ==
  ("phase0" \in phases) =>
     \A i \in {j \in 1..Len(entries(fs0)) : has(entries(fs0)[j], "source")} :
       LET source == entries(fs0)[i].v["source"]
       IN /\ WrongKey(source) =>
               /\ ReportedSourceCodes(i) # {}
               /\ \A s \in WRONG_SHAPE_SOURCES :
                    /\ WrongShape(s)
                    /\ Codes(validate_source_schema(s, i, MP_PATH)) # {}
                    /\ Codes(validate_source_schema(s, i, MP_PATH)) \cap ReportedSourceCodes(i) = {}
          /\ WrongShape(source) =>
               /\ ReportedSourceCodes(i) # {}
               /\ \A s \in WRONG_KEY_SOURCES :
                    /\ WrongKey(s)
                    /\ Codes(validate_source_schema(s, i, MP_PATH)) # {}
                    /\ Codes(validate_source_schema(s, i, MP_PATH)) \cap ReportedSourceCodes(i) = {}

\* C16 witness: a finished run on a manifest whose source uses the key "type",
\* reported under E006
C16_Witness ==
  /\ Done /\ "phase0" \in phases
  /\ \E i \in 1..Len(entries(fs0)) :
       /\ has(entries(fs0)[i], "source") /\ WrongKey(entries(fs0)[i].v["source"])
       /\ ReportedSourceCodes(i) = {"E006"}

\* the Schema Validator issues whose corrected value follows from the reported
\* value alone: a source object keyed by "type", and a path without the "./" prefix
DERIVABLE_KINDS ==
  {"source uses type key", "source is . but must be ./", "source must start with ./",
   "commands item must start with ./", "agents item must start with ./",
   "skills item must start with ./", "hooks must start with ./"}

\* the errors of the run's report that Phase 0 reported under a derivable kind
DerivableIssues ==
  {n \in 1..Len(total_result.errors) :
     /\ total_result.errors[n].kind \in DERIVABLE_KINDS
     /\ \E j \in 1..Len(validate_schema_static(fs0, MP_PATH).errors) :
          validate_schema_static(fs0, MP_PATH).errors[j] = total_result.errors[n]}

\* C17: every Schema Validator issue whose corrected value is mechanically
\* derivable carries a Fix: a source object keyed by "type" a Fix that converts
\* it into the {"source": ...} shape, a source path without the "./" prefix a
\* Fix that prepends it.
C17_DerivableIssuesCarryFix ==
  ("phase0" \in phases) =>
     \A n \in DerivableIssues :
       LET e == total_result.errors[n]
       IN /\ e.fix # NoFix
          /\ e.kind = "source uses type key" => e.fix.fn = "fix_github_source_format"
          /\ e.kind = "source must start with ./" =>
               /\ e.fix.fn = "fix_source_path"
               /\ e.fix.args.new_source = DOTSLASH \o e.subj

\* the codes of class ErrorCode
ErrorCode ==
  {"E001", "E002", "E003", "E004", "E005", "E006", "E007", "E008", "E009", "E010",
   "E011", "E012", "E013", "E014", "E015", "E016", "E017", "E018", "E019", "E020",
   "E021", "E022", "E023", "E024", "E025", "E026", "E027",
   "W029", "W030", "W031", "W032", "W033", "W034"}

\* C18: in every final report each message of the errors bucket and of the
\* warnings bucket carries a code of the ErrorCode enumeration, and no entry of
\* the passed bucket has a Fix attached.
C18_CodesFromClosedEnumeration ==
  Done =>
    /\ \A n \in 1..Len(total_result.errors) : total_result.errors[n].code \in ErrorCode
    /\ \A n \in 1..Len(total_result.warnings) : total_result.warnings[n].code \in ErrorCode
    /\ \A n \in 1..Len(total_result.passed) : "fix" \notin DOMAIN total_result.passed[n]

\* the Schema Validator accepts the manifest of the tree without a remark
ValidManifest(tree) ==
  /\ ~ManifestUnusable(tree)
  /\ validate_schema_static(tree, MP_PATH).errors = <<>>
  /\ validate_schema_static(tree, MP_PATH).warnings = <<>>

\* the file and content checks find the tree consistent with its manifest
ConsistentTree(tree, yaml) ==
  /\ file_checks(tree, yaml).errors = <<>>
  /\ file_checks(tree, yaml).warnings = <<>>

\* a host that contributes no finding of its own: the CLI is installed and
\* accepts the manifest, the settings are clean, no marketplace is known and the
\* content heuristics find nothing
QuietHost(e) ==
  /\ e.cli = "pass" /\ e.settings = "clean" /\ e.known_marketplaces = "absent"
  /\ e.patterns = {}

\* C19: for every valid manifest whose file tree is fully consistent with it,
\* Phases 0 through 3 add no error and no warning to the report.
C19_ConsistentTreeReportsNothing ==
  (pc = "phase4" /\ ValidManifest(fs0) /\ ConsistentTree(fs0, env.yaml) /\ QuietHost(env)) =>
     /\ total_result.errors = <<>>
     /\ total_result.warnings = <<>>

\* the errors validate_deploy_readiness can add
DEPLOY_ERRORS == {"[DEPLOY] uncommitted change(s)", "changed file", "[DEPLOY] unpushed commit(s)"}

\* the positions of the deploy-readiness errors in the run's report
DeployErrors ==
  {n \in 1..Len(total_result.errors) : total_result.errors[n].kind \in DEPLOY_ERRORS}

\* C20: Phase 4 reports no deploy-readiness error for a git-clean tree, and
\* for a tree with exactly one uncommitted change it reports exactly one
\* deploy-readiness error, which names that change.
C20_OneErrorPerUncommittedChange ==
  ("phase4" \in phases) =>
     /\ env.git = "clean" => DeployErrors = {}
     /\ env.git = "dirty" =>
          /\ Cardinality(DeployErrors) = 1
          /\ \A n \in DeployErrors : total_result.errors[n].kind = "changed file"

\* the warnings validate_deploy_readiness can add
DEPLOY_WARNINGS ==
  {"Not a git repository", "[DEPLOY] Branch is behind remote", "Git: no upstream tracking",
   "Git status check timed out", "Git not found"}

\* the positions of the deploy-readiness warnings in the run's report
DeployWarnings ==
  {n \in 1..Len(total_result.warnings) : total_result.warnings[n].kind \in DEPLOY_WARNINGS}

\* C21: when --skip-git or --pre-edit is given, Phase 4 is never executed and
\* the report contains no deploy-readiness error or warning; the other phases
\* of the full path still run.
C21_NoGitPhaseUnderSkipGitOrPreEdit ==
  (flags.skip_git \/ flags.pre_edit) =>
     /\ "phase4" \notin phases
     /\ DeployErrors = {} /\ DeployWarnings = {}
     /\ FullPath => {"phase0", "phase2", "phase3", "phase5", "phase6"} \subseteq phases

\* the positions of the errors Phase 1 added to the run's report
CliErrors ==
  {n \in 1..Len(total_result.errors) :
     \E i \in 1..Len(run_claude_cli_validation(env).errors) :
        total_result.errors[n].kind = "CLI: " \o run_claude_cli_validation(env).errors[i]}

\* C22: if the host-CLI subprocess times out, Phase 1 adds no error to the
\* report, and the remaining phases still run.
C22_CliTimeoutIsNotAnError ==
  (env.cli = "timeout" /\ "phase1" \in phases) =>
     /\ CliErrors = {}
     /\ Done => {"phase2", "phase3", "phase5", "phase6"} \subseteq phases

\* the report of the run holds a warning of the kind
Warned(kind) == \E n \in 1..Len(total_result.warnings) : total_result.warnings[n].kind = kind

\* the report of the run holds an error of one of the kinds
Failed(kinds) == \E n \in 1..Len(total_result.errors) : total_result.errors[n].kind \in kinds

CLI_ERRORS == {"CLI: output line", "CLI: Timeout"}
REMOTE_ERRORS == {"repo not accessible", "repo lacks component directory"}
GIT_ERRORS == DEPLOY_ERRORS \cup {"Not a git repository", "Git not found"}

\* the manifest of the run has an entry that is checked against its remote
HasRemote == \E i \in 1..Len(entries(fs0)) : remote_checked(entries(fs0)[i])

\* C23: when an optional external tool is unavailable (host CLI not
\* installed, git not installed or the tree not a git repository, gh not
\* installed), the phase adds a warning saying why the check was skipped and
\* no error, and the run continues with the remaining phases.
C23_UnavailableToolIsAWarning ==
  /\ (env.cli = "notfound" /\ "phase1" \in phases) =>
        Warned("Claude CLI not installed") /\ ~Failed(CLI_ERRORS)
  /\ (env.git = "nogit" /\ "phase4" \in phases) =>
        Warned("Not a git repository") /\ ~Failed(GIT_ERRORS)
  /\ (env.git = "notfound" /\ "phase4" \in phases) =>
        Warned("Git not found") /\ ~Failed(GIT_ERRORS)
  /\ (env.remote = "gh_missing" /\ "phase5" \in phases /\ HasRemote) =>
        Warned("gh CLI not found") /\ ~Failed(REMOTE_ERRORS)
  /\ (Done /\ "phase1" \in phases) => {"phase2", "phase3", "phase5", "phase6"} \subseteq phases
  /\ (Done /\ "phase4" \in phases) => {"phase5", "phase6"} \subseteq phases

\* C23 witness: a finished run on a host without the CLI, outside a git
\* repository and without gh, whose manifest names a GitHub repository
C23_Witness ==
  /\ Done /\ {"phase1", "phase4", "phase5", "phase6"} \subseteq phases
  /\ env.cli = "notfound" /\ env.git = "nogit" /\ env.remote = "gh_missing" /\ HasRemote
  /\ Warned("Claude CLI not installed") /\ Warned("Not a git repository")
  /\ Warned("gh CLI not found")

\* the plugin entries of the run's manifest that are checked against a remote
RemoteEntries == {i \in 1..Len(entries(fs0)) : remote_checked(entries(fs0)[i])}

\* the answer class of the remote of plugin entry i
RemoteAnswer(i) == gh_api(env, entries(fs0)[i].v["source"].v["repo"].v)

\* every message the remote check of plugin entry i produces is in the report
RemoteChecked(i) ==
  LET r == remote_plugin(entries(fs0)[i], i, env)
  IN /\ \A k \in 1..Len(r.errors) :
          \E n \in 1..Len(total_result.errors) : total_result.errors[n] = r.errors[k]
     /\ \A k \in 1..Len(r.warnings) :
          \E n \in 1..Len(total_result.warnings) : total_result.warnings[n] = r.warnings[k]

\* C24: in Phase 5 a plugin entry whose remote repository is unreachable or
\* unauthenticated gets only warnings, no error, for its remote checks, and the
\* remote checks of every other plugin entry are still performed.
C24_UnreachableRemoteIsAWarning ==
  ("phase5" \in phases) =>
     \A i \in RemoteEntries :
       RemoteAnswer(i) \in {"inaccessible", "timeout"} =>
         /\ \A n \in 1..Len(total_result.errors) :
              ~(total_result.errors[n].idx = i /\ total_result.errors[n].kind \in REMOTE_ERRORS)
         /\ \E n \in 1..Len(total_result.warnings) :
              total_result.warnings[n].idx = i
              /\ total_result.warnings[n].kind \in {"repo not accessible", "Timeout checking repo"}
         /\ \A j \in RemoteEntries \ {i} : RemoteChecked(j)

\* the version the manifest of the tree declares for its first plugin, when the
\* marketplace and the plugin are named (JNull otherwise)
LocalVersion(tree) ==
  LET m == load_json(tree, MP_PATH).v
      plugins == get(m, "plugins", JL(<<>>))
  IN IF /\ ~ManifestUnusable(tree) /\ islist(plugins) /\ truthy(plugins)
        /\ truthy(get(m, "name", JS(<<>>)))
        /\ truthy(get(plugins.v[1], "name", JS(<<>>)))
     THEN get(plugins.v[1], "version", JNull)
     ELSE JNull

\* a cached version directory whose manifest declares another version
DeclaresOther(d, local_version) == d.manifest = "versioned" /\ JS(d.ver) # local_version

\* a cached version directory with a manifest whose version, or whose name
\* when the manifest declares no version, differs from the local version
Outdated(d, local_version) == d.manifest # "none" /\ JS(cached_ver(d)) # local_version

\* the cached directories whose clearing the report calls failed
FailedToClear ==
  {total_result.errors[n].subj :
     n \in {k \in 1..Len(total_result.errors) :
              total_result.errors[k].kind = "[CACHE] Failed to clear"}}

\* C25: when the local manifest declares a version for its first plugin,
\* Phase 6 deletes exactly the cached version directories whose cached manifest
\* declares a different version, leaves every directory with a matching
\* version or without a cached manifest untouched, and reports a deletion that
\* fails as an error.
C25_Phase6ClearsExactlyOtherVersions ==
  ("phase6" \in phases /\ truthy(LocalVersion(fs0))) =>
     /\ \A d \in cache0 :
          d \notin cache <=> (DeclaresOther(d, LocalVersion(fs0)) /\ ~d.locked)
     /\ cache \subseteq cache0
     /\ FailedToClear = {d.dir : d \in {x \in cache0 : DeclaresOther(x, LocalVersion(fs0)) /\ x.locked}}

\* C25 (amended): Phase 6 deletes exactly the cached version directories with
\* a manifest whose version differs from the local one, where a cached
\* manifest that declares no version counts with the name of its directory as
\* its version; directories with a matching version or without a cached
\* manifest stay, and a deletion that fails is reported as an error.
C25_Phase6ClearsExactlyOutdatedCache ==
  ("phase6" \in phases /\ truthy(LocalVersion(fs0))) =>
     /\ \A d \in cache0 :
          d \notin cache <=> (Outdated(d, LocalVersion(fs0)) /\ ~d.locked)
     /\ cache \subseteq cache0
     /\ FailedToClear = {d.dir : d \in {x \in cache0 : Outdated(x, LocalVersion(fs0)) /\ x.locked}}

\* C25 witness: a finished run that removed the outdated 0.9.0 directory and
\* kept the directory of the local version
C25_Witness ==
  /\ Done /\ "phase6" \in phases /\ truthy(LocalVersion(fs0))
  /\ \E d \in cache0 : DeclaresOther(d, LocalVersion(fs0)) /\ d \notin cache
  /\ \E d \in cache : JS(d.ver) = LocalVersion(fs0)

\* the errors Phase 1 adds in a run without --quiet on the host of this run
Phase1Errors ==
  LET cli == run_claude_cli_validation(env)
  IN IF cli.available /\ ~cli.success
     THEN {"CLI: " \o cli.errors[i] : i \in 1..Len(cli.errors)}
     ELSE {}

\* C26: --quiet changes only what is printed: a run with --quiet executes the
\* phases, collects the errors and exits with the code of the run without
\* --quiet on the same tree and host.  Phase 1 and its errors are what the run
\* without --quiet has for certain, and with an error it exits with 1 unless
\* its fixes resolved every error.
C26_QuietOnlyChangesOutput ==
  (flags.quiet /\ "phase2" \in phases) =>
     /\ "phase1" \in phases
     /\ \A k \in Phase1Errors : Failed({k})
     /\ (Done /\ ~FixApply /\ Phase1Errors # {}) => exit_code = 1

\* the Fixes that move files to another place
RELOCATION_FIXES == {"fix_move_component_to_root", "fix_skills_complete", "fix_skill_structure"}

\* every file of the tree before, the manifest aside, is in the tree after with
\* its content: at its old path, or at a path that did not exist before
KeepsFiles(before, after) ==
  \A p \in (DOMAIN before.files) \ {MP_PATH} :
    \/ p \in DOMAIN after.files /\ after.files[p] = before.files[p]
    \/ /\ p \notin DOMAIN after.files
       /\ \E q \in (DOMAIN after.files) \ (DOMAIN before.files) :
            after.files[q] = before.files[p]

\* this step applies a relocation Fix
RelocationStep ==
  /\ pc = "apply_fixes" /\ ~flags.dry_run
  /\ fix_i <= Len(total_result.fixes)
  /\ total_result.fixes[fix_i].fn \in RELOCATION_FIXES

\* C27: no relocation Fix overwrites or loses a file: every file that existed
\* before the Fix exists afterwards with its original content, at its old or
\* its new location, and a file already at the destination keeps its content.
C27_RelocationKeepsFiles ==
  [][RelocationStep => KeepsFiles(fs, fs')]_vars

\* C28: for every manifest that parses as JSON a full run of main reaches
\* the exit-code logic: a schema violation Phase 0 has reported never makes a
\* later phase raise an exception that no handler catches.
C28_NoUnhandledException ==
  pc # "crashed"

====
